---- MODULE Spec2Model ----
(***************************************************************************)
(* Model of the amogus-analysus simulation: the engine (game.py, class     *)
(* Game) and the agent decision policy (fuzzer.py, class Fuzzer).          *)
(*                                                                         *)
(* Game.step is modelled at the granularity of one loop iteration (one     *)
(* decide_* call followed by its apply_action), so that the order of the   *)
(* phases of a tick is observable.  Every engine mutation is an operator   *)
(* from a game record to a game record, translated from the code.          *)
(*                                                                         *)
(* Players are identified by their (unique) names.  Floats (dislike        *)
(* weights) are counted in hundredths.                                     *)
(***************************************************************************)
EXTENDS Integers, Sequences, FiniteSets, TLC

(***************************************************************************)
(* Program constants (game.py)                                             *)
(***************************************************************************)
DELTA_DISLIKE == 15
MAX_DISLIKE == 90
KILL_COOLDOWN_TICKS == 5
VENT_COOLDOWN_TICKS == 5
SUS_WINDOW == 2

PlayerState == {"IDLE", "WORKING", "FOLLOWING", "DEAD", "FIX_SABOTAGE"}

\* competency.py is not part of the sources at hand: the enumeration is
\* taken from its uses in fuzzer.py.
Competency == {"FULL", "TROLL", "NORMAL"}

TASK_TO_TICKS == [SHORT |-> 1, MEDIUM |-> 2, LONG |-> 3]

NONE == "None"

(***************************************************************************)
(* Bounds of the model                                                     *)
(***************************************************************************)
\* ticks simulated under the Fuzzer policy
MaxTick == 2
\* ticks simulated under the policy of SpecAny
MaxAnyTick == 1
\* actions other than NoneAction the policy of SpecAny proposes in a run
MaxActs == 3
\* ticks simulated under the policy of SpecWalk
MaxWalkTick == 5
\* ticks of a run of the meeting policy (SpecVote)
MaxVoteTick == 2
\* ticks of a run of the loitering policy (SpecChase)
MaxChaseTick == 2
\* ticks of a run of the accusing policy (SpecAccuse)
MaxAccuseTick == 1
\* ticks of a run of the one-group policy (SpecStar)
MaxStarTick == 2
\* ticks of a run of the late-arrival policy (SpecLate)
MaxLateTick == 4
\* ticks of a run of the venting policy (SpecVent)
MaxVentTick == 7
\* ticks of a run of the killing policy (SpecKill)
MaxKillTick == 6

(***************************************************************************)
(* The map file (input of Game.__init__).                                  *)
(*   start cafe                                                            *)
(*   cafe -- admin                                                         *)
(*   admin -- vent_a                                                       *)
(*   cafe -v- vent_a                                                       *)
(*   swipe -t- admin -t- S -t- ->scan                                      *)
(*   scan -t- cafe -t- M -t- V                                             *)
(*   red -p- P -p- ->swipe                                                 *)
(*   black -p- P                                                           *)
(*   cyan -p- ->swipe                                                      *)
(*   pink -p- ->scan                                                       *)
(***************************************************************************)
NodeNames == {"cafe", "admin", "vent_a"}
StartNode == "cafe"

\* self.edges: per node, the neighbours in insertion order with the
\* vent-only flag
Edges ==
  [cafe   |-> << [dest |-> "admin",  vent |-> FALSE], [dest |-> "vent_a", vent |-> TRUE] >>,
   admin  |-> << [dest |-> "cafe",   vent |-> FALSE], [dest |-> "vent_a", vent |-> FALSE] >>,
   vent_a |-> << [dest |-> "admin",  vent |-> FALSE], [dest |-> "cafe",   vent |-> TRUE] >>]

\* Node.vent: the name contains "vent"
NodeVent(n) == n = "vent_a"

TaskNames == {"swipe", "scan"}

\* self.tasks
TaskDefs ==
  [swipe |-> [name |-> "swipe", length |-> "SHORT",  visual |-> FALSE,
              location |-> "admin", next_task |-> <<"scan">>],
   scan  |-> [name |-> "scan",  length |-> "MEDIUM", visual |-> TRUE,
              location |-> "cafe",  next_task |-> <<>>]]

\* the player lines of the map, in file order
Roster == <<"red", "black", "cyan", "pink">>
PlayerNames == {Roster[i] : i \in 1..Len(Roster)}
RosterImposter == [red |-> TRUE, black |-> TRUE, cyan |-> FALSE, pink |-> FALSE]
RosterTasks == [red |-> <<"swipe">>, black |-> <<>>, cyan |-> <<"swipe">>, pink |-> <<"scan">>]

\* outcomes of Fuzzer._assign_competencies explored (impostors are NORMAL)
CompetencyRolls ==
  {[red |-> "NORMAL", black |-> "NORMAL", cyan |-> "NORMAL", pink |-> "NORMAL"],
   [red |-> "NORMAL", black |-> "NORMAL", cyan |-> "FULL",   pink |-> "TROLL"],
   [red |-> "NORMAL", black |-> "NORMAL", cyan |-> "TROLL",  pink |-> "FULL"]}

\* group sizes bulk_tester.run_single passes to Fuzzer
GroupSizes == {2, 4}

(***************************************************************************)
(* State                                                                   *)
(***************************************************************************)
VARIABLES
  players,               \* Game.players: the roster, a sequence of names
  node_players,          \* Node.players per node: occupant lists
  imposter,              \* Player.imposter
  competency,            \* Player.competency
  state,                 \* Player.state
  current_location,      \* Player.current_location
  tasks,                 \* Player.tasks: queue of task names
  current_task,          \* Player.current_task (NONE or a task name)
  ticks_elapsed,         \* Player.ticks_elapsed
  dislike_visited_node,  \* Player.dislike_visited_node (absent key = 0)
  following_player,      \* Player.following_player (NONE or a name)
  player_following,      \* Player.player_following: list of names
  vouch_history,         \* Player.vouch_history: set of names
  kill_cooldown,         \* Player.kill_cooldown
  vent_cooldown,         \* Player.vent_cooldown
  voted_out,             \* Player.voted_out
  dead_body_reported,    \* Player.dead_body_reported
  movement_history,      \* Game.movement_history
  kill_witness_history,  \* Game.kill_witness_history
  tick_counter,          \* Game.tick_counter
  action_history,        \* Game.action_history
  groups_initialised,    \* Fuzzer.groups_initialised
  group_size,            \* Fuzzer.group_size
  phase,                 \* position of Game.step: "idle", "state", "move", "action"
  idx,                   \* index into Game.players of the loop of the phase
  raised,                \* exception that left Game.step, or NONE
  step_trace,            \* events of the current tick, in the order taken: the tick,
                         \* each decision (phase, player), the sort (the roster and
                         \* the FOLLOWING players it found)
  acts                   \* non-NoneAction proposals of the unconstrained policy so far

gameVars == <<players, node_players, state, current_location, tasks, current_task,
              ticks_elapsed, dislike_visited_node, following_player, player_following,
              vouch_history, kill_cooldown, vent_cooldown, voted_out, dead_body_reported,
              movement_history, kill_witness_history, tick_counter, action_history,
              raised>>

vars == <<gameVars, imposter, competency, groups_initialised, group_size, phase, idx,
          step_trace, acts>>

(***************************************************************************)
(* Sequence helpers (Python list operations)                               *)
(***************************************************************************)
Range(s) == {s[i] : i \in 1..Len(s)}

\* x in s
InList(s, x) == x \in Range(s)

\* index of the first occurrence of x in s (x is in s)
IndexOf(s, x) == CHOOSE i \in 1..Len(s) : s[i] = x /\ \A j \in 1..(i - 1) : s[j] # x

\* list.remove(x): removes the first occurrence
ListRemove(s, x) ==
  LET i == IndexOf(s, x)
  IN  [j \in 1..(Len(s) - 1) |-> IF j < i THEN s[j] ELSE s[j + 1]]

Max(a, b) == IF a >= b THEN a ELSE b
Min(a, b) == IF a <= b THEN a ELSE b

Reverse(s) == [i \in 1..Len(s) |-> s[Len(s) + 1 - i]]

\* number of occurrences of x in s
Count(s, x) == Cardinality({i \in 1..Len(s) : s[i] = x})

(***************************************************************************)
(* The game as one record, so that engine functions compose                *)
(***************************************************************************)
G ==
  [players |-> players, node_players |-> node_players, state |-> state,
   current_location |-> current_location, tasks |-> tasks,
   current_task |-> current_task, ticks_elapsed |-> ticks_elapsed,
   dislike_visited_node |-> dislike_visited_node,
   following_player |-> following_player, player_following |-> player_following,
   vouch_history |-> vouch_history, kill_cooldown |-> kill_cooldown,
   vent_cooldown |-> vent_cooldown, voted_out |-> voted_out,
   dead_body_reported |-> dead_body_reported,
   movement_history |-> movement_history,
   kill_witness_history |-> kill_witness_history,
   tick_counter |-> tick_counter, action_history |-> action_history,
   raised |-> raised]

Commit(g) ==
  /\ players' = g.players
  /\ node_players' = g.node_players
  /\ state' = g.state
  /\ current_location' = g.current_location
  /\ tasks' = g.tasks
  /\ current_task' = g.current_task
  /\ ticks_elapsed' = g.ticks_elapsed
  /\ dislike_visited_node' = g.dislike_visited_node
  /\ following_player' = g.following_player
  /\ player_following' = g.player_following
  /\ vouch_history' = g.vouch_history
  /\ kill_cooldown' = g.kill_cooldown
  /\ vent_cooldown' = g.vent_cooldown
  /\ voted_out' = g.voted_out
  /\ dead_body_reported' = g.dead_body_reported
  /\ movement_history' = g.movement_history
  /\ kill_witness_history' = g.kill_witness_history
  /\ tick_counter' = g.tick_counter
  /\ action_history' = g.action_history
  /\ raised' = g.raised

(***************************************************************************)
(* Game.__init__: every player IDLE in the start node, in file order       *)
(***************************************************************************)
GameInit ==
  /\ players = Roster
  /\ node_players = [n \in NodeNames |-> IF n = StartNode THEN Roster ELSE <<>>]
  /\ imposter = RosterImposter
  /\ state = [p \in PlayerNames |-> "IDLE"]
  /\ current_location = [p \in PlayerNames |-> StartNode]
  /\ tasks = RosterTasks
  /\ current_task = [p \in PlayerNames |-> NONE]
  /\ ticks_elapsed = [p \in PlayerNames |-> 0]
  /\ dislike_visited_node = [p \in PlayerNames |-> [n \in NodeNames |-> 0]]
  /\ following_player = [p \in PlayerNames |-> NONE]
  /\ player_following = [p \in PlayerNames |-> <<>>]
  /\ vouch_history = [p \in PlayerNames |-> {}]
  /\ kill_cooldown = [p \in PlayerNames |-> 0]
  /\ vent_cooldown = [p \in PlayerNames |-> 0]
  /\ voted_out = [p \in PlayerNames |-> FALSE]
  /\ dead_body_reported = [p \in PlayerNames |-> FALSE]
  /\ movement_history = <<>>
  /\ kill_witness_history = <<>>
  /\ tick_counter = 0
  /\ action_history = <<>>
  /\ raised = NONE

(***************************************************************************)
(* The Action Protocol (dataclasses NoneAction .. FollowAction)            *)
(***************************************************************************)
NoneAction == [type |-> "NONE"]
MoveAction(dest) == [type |-> "MOVE", dest |-> dest]
StartTaskAction(task) == [type |-> "START_TASK", task |-> task]
WorkTaskAction == [type |-> "WORK_TASK_TICK"]
KillAction(target, self_report, self_report_witness, witness_reporter) ==
  [type |-> "KILL", target |-> target, self_report |-> self_report,
   self_report_witness |-> self_report_witness,
   witness_reporter |-> witness_reporter]
ReportAction(dead_bodies, witnessed) ==
  [type |-> "REPORT", dead_bodies |-> dead_bodies, witnessed |-> witnessed]
SetStateAction(new_state) == [type |-> "SET_STATE", new_state |-> new_state]
FollowAction(leader) == [type |-> "FOLLOW", leader |-> leader]

\* ReportAction.dead_bodies is a list or None; None is written NoBodies
NoBodies == <<NONE>>
Bodies(dead_bodies) == IF dead_bodies = NoBodies THEN <<>> ELSE dead_bodies

(***************************************************************************)
(* Graph lookups                                                           *)
(***************************************************************************)
\* dest_name in self.edges.get(src, {})
HasEdge(src, dest) == \E i \in 1..Len(Edges[src]) : Edges[src][i].dest = dest

\* edges_from_src[dest_name]
IsVentEdge(src, dest) ==
  LET i == CHOOSE j \in 1..Len(Edges[src]) : Edges[src][j].dest = dest
  IN  Edges[src][i].vent

Alive(g, p) == g.state[p] # "DEAD"

\* Game.get_other_players_in_current_node
OtherPlayersInCurrentNode(g, player) ==
  SelectSeq(g.node_players[g.current_location[player]], LAMBDA q : q # player)

\* Game.get_dead_bodies_unreported
DeadBodiesUnreported(g) ==
  SelectSeq(g.players, LAMBDA q : /\ g.state[q] = "DEAD"
                                  /\ ~g.voted_out[q]
                                  /\ ~g.dead_body_reported[q])

(***************************************************************************)
(* Game.tick_cooldowns                                                     *)
(***************************************************************************)
TickCooldowns(g) ==
  [g EXCEPT
     !.kill_cooldown = [p \in PlayerNames |->
        IF g.state[p] = "DEAD" THEN g.kill_cooldown[p]
        ELSE Max(g.kill_cooldown[p] - 1, 0)],
     !.vent_cooldown = [p \in PlayerNames |->
        IF g.state[p] = "DEAD" THEN g.vent_cooldown[p]
        ELSE Max(g.vent_cooldown[p] - 1, 0)]]

(***************************************************************************)
(* Game.check_crewmate_win / Game.check_imposter_win                       *)
(***************************************************************************)
\* the predicate with any() in place of all()
CheckCrewmateWinAny(g) ==
  \E i \in 1..Len(g.players) : imposter[g.players[i]] /\ g.state[g.players[i]] = "DEAD"

CheckCrewmateWin(g) ==
  LET imposters == SelectSeq(g.players, LAMBDA p : imposter[p])
  IN  \A i \in 1..Len(imposters) : g.state[imposters[i]] = "DEAD"

CheckImposterWin(g) ==
  LET crewmates == SelectSeq(g.players, LAMBDA p : ~imposter[p])
  IN  \A i \in 1..Len(crewmates) : g.state[crewmates[i]] = "DEAD"

(***************************************************************************)
(* Game._apply_set_state                                                   *)
(***************************************************************************)
\* the state change without the test for a dead player
ApplySetStateUnguarded(g, player, new_state) ==
  [g EXCEPT !.state[player] = new_state]

ApplySetState(g, player, new_state) ==
  IF g.state[player] = "DEAD" THEN g
  ELSE [g EXCEPT !.state[player] = new_state]

(***************************************************************************)
(* Game._apply_move                                                        *)
(***************************************************************************)
\* the movement witness records of one move: one per other living occupant
\* of the destination, positional arguments as in the call
MovementRecords(g, player, occupants, src, dest) ==
  LET onlookers == SelectSeq(occupants, LAMBDA w : w # player /\ g.state[w] # "DEAD")
  IN  [i \in 1..Len(onlookers) |->
         [tick |-> g.tick_counter, witness |-> player, subject |-> onlookers[i],
          previous |-> src, location |-> dest]]

\* lines 436-452: the guards of the move
MoveLegal(g, player, dest_name) ==
  /\ g.state[player] # "DEAD"
  /\ dest_name \in NodeNames
  /\ HasEdge(g.current_location[player], dest_name)
  /\ ~(IsVentEdge(g.current_location[player], dest_name)
       /\ (~imposter[player] \/ g.vent_cooldown[player] > 0))

\* the move that forgets to leave the source node
ApplyMoveKeepsSource(g, player, dest_name) ==
  IF ~MoveLegal(g, player, dest_name) THEN g
  ELSE [g EXCEPT
          !.dislike_visited_node[player][dest_name] = Min(@ + DELTA_DISLIKE, MAX_DISLIKE),
          !.node_players[dest_name] = IF InList(@, player) THEN @ ELSE Append(@, player),
          !.current_location[player] = dest_name]

\* the move that adds to the dislike weight without the cap
ApplyMoveUncapped(g, player, dest_name) ==
  IF ~MoveLegal(g, player, dest_name) THEN g
  ELSE LET src == g.current_location[player] IN
    [g EXCEPT
       !.dislike_visited_node[player][dest_name] = @ + DELTA_DISLIKE,
       !.node_players = [n \in NodeNames |->
          IF n = dest_name THEN Append(SelectSeq(@[n], LAMBDA q : q # player), player)
          ELSE SelectSeq(@[n], LAMBDA q : q # player)],
       !.current_location[player] = dest_name,
       !.vent_cooldown[player] =
          IF NodeVent(src) /\ ~NodeVent(dest_name) THEN VENT_COOLDOWN_TICKS ELSE @]

\* the move that lets an impostor through a vent whatever its vent cooldown
ApplyMoveIgnoresVentCooldown(g, player, dest_name) ==
  IF g.state[player] = "DEAD" \/ dest_name \notin NodeNames THEN g
  ELSE LET src == g.current_location[player] IN
    IF ~HasEdge(src, dest_name) THEN g
    ELSE IF IsVentEdge(src, dest_name) /\ ~imposter[player] THEN g
    ELSE
      [g EXCEPT
         !.dislike_visited_node[player][dest_name] = Min(@ + DELTA_DISLIKE, MAX_DISLIKE),
         !.node_players = [n \in NodeNames |->
            IF n = dest_name THEN Append(SelectSeq(@[n], LAMBDA q : q # player), player)
            ELSE SelectSeq(@[n], LAMBDA q : q # player)],
         !.current_location[player] = dest_name,
         !.vent_cooldown[player] =
            IF NodeVent(src) /\ ~NodeVent(dest_name) THEN VENT_COOLDOWN_TICKS ELSE @]

\* the move that never starts the vent cooldown
ApplyMoveNoVentCooldown(g, player, dest_name) ==
  IF ~MoveLegal(g, player, dest_name) THEN g
  ELSE LET src == g.current_location[player] IN
    [g EXCEPT
       !.dislike_visited_node[player][dest_name] = Min(@ + DELTA_DISLIKE, MAX_DISLIKE),
       !.node_players = [n \in NodeNames |->
          IF n = dest_name THEN Append(SelectSeq(@[n], LAMBDA q : q # player), player)
          ELSE SelectSeq(@[n], LAMBDA q : q # player)],
       !.current_location[player] = dest_name,
       !.movement_history = @ \o MovementRecords(g, player,
            Append(SelectSeq(g.node_players[dest_name], LAMBDA q : q # player), player),
            src, dest_name)]

ApplyMove(g, player, dest_name) ==
  IF g.state[player] = "DEAD" THEN g
  ELSE IF dest_name \notin NodeNames THEN g
  ELSE LET src == g.current_location[player] IN
    IF ~HasEdge(src, dest_name) THEN g
    ELSE IF IsVentEdge(src, dest_name)
            /\ (~imposter[player] \/ g.vent_cooldown[player] > 0) THEN g
    ELSE
      LET dislike == g.dislike_visited_node[player][dest_name]
          np1 == IF InList(g.node_players[src], player)
                 THEN [g.node_players EXCEPT ![src] = ListRemove(@, player)]
                 ELSE g.node_players
          np2 == IF ~InList(np1[dest_name], player)
                 THEN [np1 EXCEPT ![dest_name] = Append(@, player)]
                 ELSE np1
      IN  [g EXCEPT
             !.dislike_visited_node[player][dest_name] =
                 Min(dislike + DELTA_DISLIKE, MAX_DISLIKE),
             !.node_players = np2,
             !.current_location[player] = dest_name,
             !.movement_history =
                 @ \o MovementRecords(g, player, np2[dest_name], src, dest_name),
             !.vent_cooldown[player] =
                 IF NodeVent(src) /\ ~NodeVent(dest_name)
                 THEN VENT_COOLDOWN_TICKS ELSE @]

(***************************************************************************)
(* Game._apply_start_task                                                  *)
(***************************************************************************)
ApplyStartTask(g, player, task) ==
  IF g.state[player] = "DEAD" THEN g
  ELSE IF ~InList(g.tasks[player], task) /\ g.current_task[player] # NONE THEN g
  ELSE [g EXCEPT
          !.current_task[player] = task,
          !.tasks[player] =
              IF ~imposter[player] /\ InList(@, task) THEN ListRemove(@, task) ELSE @]

(***************************************************************************)
(* Game._apply_work_task_tick                                              *)
(***************************************************************************)
\* the work tick that counts wherever the player stands
ApplyWorkTaskTickAnywhere(g, player) ==
  IF g.state[player] = "DEAD" THEN g
  ELSE IF g.current_task[player] = NONE THEN g
  ELSE LET task == TaskDefs[g.current_task[player]] IN
    IF g.ticks_elapsed[player] + 1 < TASK_TO_TICKS[task.length]
    THEN [g EXCEPT !.ticks_elapsed[player] = @ + 1]
    ELSE
      LET enqueue == /\ task.next_task # <<>>
                     /\ ~imposter[player]
                     /\ task.next_task[1] \in TaskNames
          vouch == task.visual /\ ~imposter[player]
      IN  [g EXCEPT
             !.ticks_elapsed[player] = 0,
             !.tasks[player] = IF enqueue THEN Append(@, task.next_task[1]) ELSE @,
             !.vouch_history = [f \in PlayerNames |->
                 IF vouch /\ InList(g.player_following[player], f)
                 THEN g.vouch_history[f] \cup {player}
                 ELSE g.vouch_history[f]],
             !.current_task[player] = NONE]

\* the work tick that grants the vouch before the task is finished
ApplyWorkTaskTickVouchesEarly(g, player) ==
  IF g.state[player] = "DEAD" THEN g
  ELSE IF g.current_task[player] = NONE THEN g
  ELSE LET task == TaskDefs[g.current_task[player]]
           vouch == task.visual /\ ~imposter[player]
           vouched == [f \in PlayerNames |->
                 IF vouch /\ InList(g.player_following[player], f)
                 THEN g.vouch_history[f] \cup {player}
                 ELSE g.vouch_history[f]]
       IN
    IF task.location # g.current_location[player] THEN g
    ELSE IF g.ticks_elapsed[player] + 1 < TASK_TO_TICKS[task.length]
    THEN [g EXCEPT !.ticks_elapsed[player] = @ + 1,
                   !.vouch_history = vouched]
    ELSE
      LET enqueue == /\ task.next_task # <<>>
                     /\ ~imposter[player]
                     /\ task.next_task[1] \in TaskNames
      IN  [g EXCEPT
             !.ticks_elapsed[player] = 0,
             !.tasks[player] = IF enqueue THEN Append(@, task.next_task[1]) ELSE @,
             !.vouch_history = vouched,
             !.current_task[player] = NONE]

ApplyWorkTaskTick(g, player) ==
  IF g.state[player] = "DEAD" THEN g
  ELSE IF g.current_task[player] = NONE THEN g
  ELSE LET task == TaskDefs[g.current_task[player]] IN
    IF task.location # g.current_location[player] THEN g
    ELSE IF g.ticks_elapsed[player] + 1 < TASK_TO_TICKS[task.length]
    THEN [g EXCEPT !.ticks_elapsed[player] = @ + 1]
    ELSE
      LET enqueue == /\ task.next_task # <<>>
                     /\ ~imposter[player]
                     /\ task.next_task[1] \in TaskNames
          vouch == task.visual /\ ~imposter[player]
      IN  [g EXCEPT
             !.ticks_elapsed[player] = 0,
             !.tasks[player] = IF enqueue THEN Append(@, task.next_task[1]) ELSE @,
             !.vouch_history = [f \in PlayerNames |->
                 IF vouch /\ InList(g.player_following[player], f)
                 THEN g.vouch_history[f] \cup {player}
                 ELSE g.vouch_history[f]],
             !.current_task[player] = NONE]

(***************************************************************************)
(* Game._log_report_outcome                                                *)
(***************************************************************************)
LogReportOutcome(g, reporter, witnessed, dead_bodies, eliminated) ==
  [g EXCEPT !.action_history = Append(@,
     [tick |-> g.tick_counter, player |-> reporter,
      action |-> [type |-> "REPORT_OUTCOME", reporter |-> reporter,
                  witnessed |-> witnessed, dead_bodies |-> dead_bodies,
                  voted_out |-> eliminated]])]

\* X.state = PlayerState.DEAD; X.voted_out = True
Eliminate(g, p) == [g EXCEPT !.state[p] = "DEAD", !.voted_out[p] = TRUE]

(***************************************************************************)
(* Game.report, witnessed branch (lines 609-650)                           *)
(***************************************************************************)
\* the tally that leaves the reporter out
ReportWitnessedReporterUncounted(g, reporter, dead_bodies, witnessed) ==
  LET others == OtherPlayersInCurrentNode(g, reporter)
      imposters_in_node ==
        Len(SelectSeq(others, LAMBDA p : imposter[p] /\ g.state[p] # "DEAD"))
      crewmates_in_node ==
        Len(SelectSeq(others, LAMBDA p : ~imposter[p] /\ g.state[p] # "DEAD"))
  IN  IF imposters_in_node - crewmates_in_node >= 1
      THEN LogReportOutcome(Eliminate(g, reporter), reporter, witnessed, dead_bodies, reporter)
      ELSE IF crewmates_in_node - imposters_in_node >= 1
      THEN IF imposter[reporter]
           THEN LogReportOutcome(Eliminate(g, reporter), reporter, witnessed,
                                 dead_bodies, reporter)
           ELSE LogReportOutcome(Eliminate(g, witnessed), reporter, witnessed,
                                 dead_bodies, witnessed)
      ELSE g

ReportWitnessed(g, reporter, dead_bodies, witnessed) ==
  LET others == OtherPlayersInCurrentNode(g, reporter)
      imposters_in_node ==
        Len(SelectSeq(others, LAMBDA p : imposter[p] /\ g.state[p] # "DEAD"))
        + (IF imposter[reporter] THEN 1 ELSE 0)
      crewmates_in_node ==
        Len(SelectSeq(others, LAMBDA p : ~imposter[p] /\ g.state[p] # "DEAD"))
        + (IF imposter[reporter] THEN 0 ELSE 1)
  IN  IF imposters_in_node - crewmates_in_node >= 1
      THEN LogReportOutcome(Eliminate(g, reporter), reporter, witnessed, dead_bodies, reporter)
      ELSE IF crewmates_in_node - imposters_in_node >= 1
      THEN IF imposter[reporter]
           THEN LogReportOutcome(Eliminate(g, reporter), reporter, witnessed,
                                 dead_bodies, reporter)
           ELSE LogReportOutcome(Eliminate(g, witnessed), reporter, witnessed,
                                 dead_bodies, witnessed)
      ELSE g

(***************************************************************************)
(* Game.report, body branch: suspicion scoring (lines 671-698)             *)
(***************************************************************************)
\* keys of sus_score, in insertion order
SusKeys(g) == SelectSeq(g.players, LAMBDA p : g.state[p] # "DEAD")

\* the node the recorded killer is in when the report is resolved
KillNode(g, entry) == g.current_location[entry.killer]

\* lines 674-676
ColocationScore(g, dead_set, entry, p) ==
  IF p \notin dead_set /\ g.state[p] # "DEAD"
  THEN Count(g.node_players[KillNode(g, entry)], p)
  ELSE 0

\* lines 679-684
MovementMatches(g, entry, e) ==
  /\ g.state[e.subject] # "DEAD"
  /\ g.state[e.witness] # "DEAD"
  /\ \/ (e.tick - entry.tick <= 2 /\ e.previous = KillNode(g, entry))
     \/ (entry.tick - e.tick < 2 /\ e.location = KillNode(g, entry))

MovementScore(g, entry, p) ==
  Cardinality({i \in 1..Len(g.movement_history) :
                 /\ g.movement_history[i].subject = p
                 /\ MovementMatches(g, entry, g.movement_history[i])})

\* lines 686-693
RelationScore(g, dead_set, p) ==
  IF Range(g.player_following[p]) \cap dead_set # {} THEN 1
  ELSE IF g.following_player[p] \in dead_set THEN 1
  ELSE 0

\* the vouch test read the wrong way round: s trusts somebody living
VouchedTruster(g, s) ==
  \E i \in 1..Len(g.players) :
     g.players[i] \in g.vouch_history[s] /\ g.state[g.players[i]] # "DEAD"

\* lines 695-698
Vouched(g, s) ==
  \E i \in 1..Len(g.players) :
     s \in g.vouch_history[g.players[i]] /\ g.state[g.players[i]] # "DEAD"

SusScore(g, dead_set, entry) ==
  [p \in Range(SusKeys(g)) |->
     IF Vouched(g, p) THEN 0
     ELSE ColocationScore(g, dead_set, entry, p)
          + MovementScore(g, entry, p)
          + RelationScore(g, dead_set, p)]

MaxSus(sus_score) ==
  CHOOSE m \in {sus_score[p] : p \in DOMAIN sus_score} :
     \A p \in DOMAIN sus_score : sus_score[p] <= m

\* the selection without the tolerance window: every living player
PossibleSuspectsWholeRoster(g, sus_score) ==
  SelectSeq(SusKeys(g), LAMBDA p : g.state[p] # "DEAD")

\* lines 703-704
PossibleSuspects(g, sus_score) ==
  SelectSeq(SusKeys(g), LAMBDA p :
     /\ g.state[p] # "DEAD"
     /\ MaxSus(sus_score) - SUS_WINDOW <= sus_score[p]
     /\ sus_score[p] <= MaxSus(sus_score))

\* the group test whose flag is never cleared
SuspectsAllInSameGroupNeverCleared(g, possible_suspects) ==
  \A p \in Range(possible_suspects) : TRUE

\* lines 707-715
SuspectsAllInSameGroup(g, possible_suspects) ==
  \A p \in Range(possible_suspects) :
     LET others == Range(possible_suspects) \ {p}
     IN  \/ \A s \in others : g.following_player[s] = p
         \/ others = Range(g.player_following[p])

(***************************************************************************)
(* Game.report, body branch (lines 652-729)                                *)
(***************************************************************************)
\* the selection with the most recent record first
RelevantEntriesLatestFirst(g, dead_set) ==
  Reverse(SelectSeq(g.kill_witness_history, LAMBDA e : e.victim \in dead_set))

\* lines 655-658
RelevantEntries(g, dead_set) ==
  SelectSeq(g.kill_witness_history, LAMBDA e : e.victim \in dead_set)

ReportBodies(g, reporter, dead_bodies, witnessed) ==
  LET dead_set == Range(Bodies(dead_bodies))
      relevant == RelevantEntries(g, dead_set)
  IN  IF relevant = <<>> THEN [g EXCEPT !.raised = "IndexError"]
      ELSE
      LET latest_entry == relevant[1] IN
      IF latest_entry.witnesses # <<>>
      THEN LogReportOutcome(Eliminate(g, latest_entry.killer), reporter,
                            latest_entry.killer, dead_bodies, latest_entry.killer)
      ELSE
      LET sus_score == SusScore(g, dead_set, latest_entry) IN
      IF DOMAIN sus_score = {} THEN [g EXCEPT !.raised = "ValueError"]
      ELSE
      LET possible_suspects == PossibleSuspects(g, sus_score) IN
      IF \/ (Len(possible_suspects) # 1
             /\ ~SuspectsAllInSameGroup(g, possible_suspects))
         \/ Len(possible_suspects) = 0
      THEN LogReportOutcome(g, reporter, witnessed, dead_bodies, NONE)
      ELSE LogReportOutcome(Eliminate(g, possible_suspects[1]), reporter, witnessed,
                            dead_bodies, possible_suspects[1])

(***************************************************************************)
(* Game.report                                                             *)
(***************************************************************************)
\* lines 605-607
MarkReported(g, dead_bodies) ==
  [g EXCEPT !.dead_body_reported = [p \in PlayerNames |->
     IF InList(Bodies(dead_bodies), p) THEN TRUE ELSE g.dead_body_reported[p]]]

Report(g, reporter, dead_bodies, witnessed) ==
  IF witnessed # NONE
  THEN ReportWitnessed(MarkReported(g, dead_bodies), reporter, dead_bodies, witnessed)
  ELSE ReportBodies(MarkReported(g, dead_bodies), reporter, dead_bodies, witnessed)

(***************************************************************************)
(* Game._apply_report                                                      *)
(***************************************************************************)
ApplyReport(g, reporter, action) ==
  IF g.state[reporter] = "DEAD" THEN g
  ELSE Report(g, reporter, action.dead_bodies, action.witnessed)

(***************************************************************************)
(* Game._apply_kill                                                        *)
(***************************************************************************)
\* the legality test that forgets the kill cooldown
KillLegalIgnoresCooldown(g, attacker, target) ==
  /\ g.state[attacker] # "DEAD"
  /\ imposter[attacker]
  /\ g.state[target] # "DEAD"
  /\ ~imposter[target]
  /\ g.current_location[attacker] = g.current_location[target]

\* the legality test that also wants the attacker alone with the target
KillLegalOnlyUnseen(g, attacker, target) ==
  /\ g.state[attacker] # "DEAD"
  /\ imposter[attacker]
  /\ ~(g.kill_cooldown[attacker] > 0)
  /\ g.state[target] # "DEAD"
  /\ ~imposter[target]
  /\ g.current_location[attacker] = g.current_location[target]
  /\ \A q \in Range(g.node_players[g.current_location[attacker]]) :
        q \in {attacker, target} \/ g.state[q] = "DEAD"

\* lines 514-531: the legality conditions
KillLegal(g, attacker, target) ==
  /\ g.state[attacker] # "DEAD"
  /\ imposter[attacker]
  /\ ~(g.kill_cooldown[attacker] > 0)
  /\ g.state[target] # "DEAD"
  /\ ~imposter[target]
  /\ g.current_location[attacker] = g.current_location[target]

\* the witness list that keeps the dead occupants of the node
KillWitnessesWithDead(g, attacker, target) ==
  SelectSeq(g.node_players[g.current_location[attacker]],
            LAMBDA p : p \notin {attacker, target})

\* lines 533-538
KillWitnesses(g, attacker, target) ==
  SelectSeq(g.node_players[g.current_location[attacker]],
            LAMBDA p : p \notin {attacker, target} /\ g.state[p] # "DEAD")

\* lines 540-554
\* the kill that leaves the attacker's cooldown as it was
KillCommitNoCooldown(g, attacker, target) ==
  LET was_follower == InList(g.player_following[attacker], target)
      fp1 == IF was_follower
             THEN [g.following_player EXCEPT ![target] = NONE]
             ELSE g.following_player
      fp2 == IF fp1[attacker] = target
             THEN [fp1 EXCEPT ![attacker] = NONE]
             ELSE fp1
  IN  [g EXCEPT
         !.kill_witness_history = Append(@,
            [tick |-> g.tick_counter, killer |-> attacker, victim |-> target,
             witnesses |-> KillWitnesses(g, attacker, target)]),
         !.state[target] = "DEAD",
         !.player_following[attacker] =
            IF was_follower THEN ListRemove(@, target) ELSE @,
         !.following_player = fp2]

KillCommit(g, attacker, target) ==
  LET was_follower == InList(g.player_following[attacker], target)
      fp1 == IF was_follower
             THEN [g.following_player EXCEPT ![target] = NONE]
             ELSE g.following_player
      fp2 == IF fp1[attacker] = target
             THEN [fp1 EXCEPT ![attacker] = NONE]
             ELSE fp1
  IN  [g EXCEPT
         !.kill_witness_history = Append(@,
            [tick |-> g.tick_counter, killer |-> attacker, victim |-> target,
             witnesses |-> KillWitnesses(g, attacker, target)]),
         !.state[target] = "DEAD",
         !.player_following[attacker] =
            IF was_follower THEN ListRemove(@, target) ELSE @,
         !.following_player = fp2,
         !.kill_cooldown[attacker] = KILL_COOLDOWN_TICKS]

ApplyKill(g, attacker, action) ==
  IF ~KillLegal(g, attacker, action.target) THEN g
  ELSE
    LET g1 == KillCommit(g, attacker, action.target)
        g2 == IF action.self_report
              THEN Report(g1, attacker, <<action.target>>, action.self_report_witness)
              ELSE g1
    IN  IF g2.raised # NONE THEN g2
        ELSE IF action.witness_reporter # NONE
        THEN Report(g2, action.witness_reporter, <<action.target>>, attacker)
        ELSE g2

(***************************************************************************)
(* Game._apply_follow                                                      *)
(***************************************************************************)
ApplyFollow(g, player, leader) ==
  IF g.state[player] = "DEAD" THEN g
  ELSE
    LET old_leader == g.following_player[player]
        pf1 == IF old_leader # NONE /\ InList(g.player_following[old_leader], player)
               THEN [g.player_following EXCEPT ![old_leader] = ListRemove(@, player)]
               ELSE g.player_following
    IN  IF leader = NONE
        THEN [g EXCEPT !.player_following = pf1,
                       !.following_player[player] = NONE,
                       !.state[player] = "IDLE"]
        ELSE [g EXCEPT
                !.player_following =
                   IF ~InList(pf1[leader], player)
                   THEN [pf1 EXCEPT ![leader] = Append(@, player)]
                   ELSE pf1,
                !.following_player[player] = leader,
                !.state[player] = "FOLLOWING"]

(***************************************************************************)
(* Game.apply_action                                                       *)
(***************************************************************************)
Dispatch(g, player, action) ==
  CASE action.type = "SET_STATE" -> ApplySetState(g, player, action.new_state)
    [] action.type = "MOVE" -> ApplyMove(g, player, action.dest)
    [] action.type = "START_TASK" -> ApplyStartTask(g, player, action.task)
    [] action.type = "WORK_TASK_TICK" -> ApplyWorkTaskTick(g, player)
    [] action.type = "KILL" -> ApplyKill(g, player, action)
    [] action.type = "REPORT" -> ApplyReport(g, player, action)
    [] action.type = "FOLLOW" -> ApplyFollow(g, player, action.leader)

\* the entry point with the log written before the NoneAction test
ApplyActionLogsNone(g, player, action) ==
  LET logged == [g EXCEPT !.action_history = Append(@,
                   [tick |-> g.tick_counter, player |-> player, action |-> action])]
  IN  IF action.type = "NONE" THEN logged ELSE Dispatch(logged, player, action)

\* the entry point with the log written after the dispatch, and only when
\* the action was carried out
ApplyActionLogsAccepted(g, player, action) ==
  IF action.type = "NONE" THEN g
  ELSE LET r == Dispatch(g, player, action)
       IN  IF r = g THEN g
           ELSE [r EXCEPT !.action_history = Append(@,
                   [tick |-> g.tick_counter, player |-> player, action |-> action])]

ApplyAction(g, player, action) ==
  IF action.type = "NONE" THEN g
  ELSE Dispatch(
         [g EXCEPT !.action_history = Append(@,
            [tick |-> g.tick_counter, player |-> player, action |-> action])],
         player, action)

(***************************************************************************)
(* Game.step                                                               *)
(***************************************************************************)
\* the sort with the key negated: followers first
SortRosterFollowersFirst(g) ==
  [g EXCEPT !.players =
     SelectSeq(g.players, LAMBDA p : g.state[p] = "FOLLOWING")
     \o SelectSeq(g.players, LAMBDA p : g.state[p] # "FOLLOWING")]

\* self.players.sort(key=lambda p: p.state == PlayerState.FOLLOWING):
\* a stable sort on a boolean key
SortRoster(g) ==
  [g EXCEPT !.players =
     SelectSeq(g.players, LAMBDA p : g.state[p] # "FOLLOWING")
     \o SelectSeq(g.players, LAMBDA p : g.state[p] = "FOLLOWING")]

\* lines 383-384: the tick counter, then the cooldowns; limit is the number
\* of ticks the caller runs
StepBeginUpTo(limit) ==
  /\ phase = "idle"
  /\ raised = NONE
  /\ tick_counter < limit
  /\ Commit(TickCooldowns([G EXCEPT !.tick_counter = @ + 1]))
  /\ phase' = "state"
  /\ idx' = 1
  /\ step_trace' = << <<"tick", NONE>> >>
  /\ UNCHANGED <<imposter, competency, groups_initialised, group_size, acts>>

\* the phase after ph
NextPhase(ph) ==
  CASE ph = "state" -> "move"
    [] ph = "move" -> "action"
    [] ph = "action" -> "idle"

\* one iteration of one of the three loops of step: the decision d of the
\* policy for self.players[idx] (the state the decision function left and
\* the action it returned), then apply_action, then - after the last player
\* of the state phase - the sort
LoopIteration(ph, d) ==
  LET p == players[idx]
      g2 == IF d.g.raised # NONE THEN d.g ELSE ApplyAction(d.g, p, d.action)
      last == idx = Len(players)
      sorts == ph = "state" /\ last /\ g2.raised = NONE
  IN  /\ Commit(IF sorts THEN SortRoster(g2) ELSE g2)
      /\ step_trace' = step_trace \o << <<ph, p>> >>
                       \o (IF sorts
                           THEN << <<"sort", g2.players,
                                     {q \in PlayerNames : g2.state[q] = "FOLLOWING"}>> >>
                           ELSE <<>>)
      /\ IF g2.raised # NONE
         THEN phase' = phase /\ idx' = idx
         ELSE /\ phase' = IF last THEN NextPhase(ph) ELSE ph
              /\ idx' = IF last THEN 1 ELSE idx + 1

(***************************************************************************)
(* Game.step driven by a policy that proposes actions from a menu: the     *)
(* decision functions may return any action of the protocol.               *)
(***************************************************************************)
PolicyIteration(ph, menu) ==
  /\ phase = ph
  /\ raised = NONE
  /\ \E a \in menu :
        /\ LoopIteration(ph, [g |-> G, action |-> a])
        /\ acts' = IF a.type = "NONE" THEN acts ELSE acts + 1
  /\ UNCHANGED <<imposter, competency, groups_initialised, group_size>>

\* the state after Game.__init__, before any policy has acted
InitPolicy ==
  /\ GameInit
  /\ competency = [p \in PlayerNames |-> "NORMAL"]
  /\ groups_initialised = FALSE
  /\ group_size = 4
  /\ phase = "idle"
  /\ idx = 1
  /\ step_trace = <<>>
  /\ acts = 0

(***************************************************************************)
(* SpecAny: a policy that proposes, at most MaxActs times in a run, any    *)
(* move, state change, task action, kill or body report, legal or not.     *)
(***************************************************************************)
AnyMoves == {MoveAction(d) : d \in NodeNames \cup {"nowhere"}}
AnySetStates == {SetStateAction("FOLLOWING")}
AnyTasks == {StartTaskAction(t) : t \in TaskNames} \cup {WorkTaskAction}
AnyKills == {KillAction(t, FALSE, NONE, NONE) : t \in {"black", "cyan", "pink"}}
AnyReports(g) ==
  {ReportAction(b, NONE) :
     b \in {DeadBodiesUnreported(g), Reverse(DeadBodiesUnreported(g))}}

AnyActions(g) ==
  AnyMoves \cup AnySetStates \cup AnyTasks \cup AnyKills \cup AnyReports(g)

AnyMenu ==
  {NoneAction} \cup (IF acts < MaxActs THEN AnyActions(G) ELSE {})

AnyStepBegin == StepBeginUpTo(MaxAnyTick)
AnyStateDecision == PolicyIteration("state", AnyMenu)
AnyMoveDecision == PolicyIteration("move", AnyMenu)
AnyActionDecision == PolicyIteration("action", AnyMenu)

NextAny == AnyStepBegin \/ AnyStateDecision \/ AnyMoveDecision \/ AnyActionDecision

SpecAny == InitPolicy /\ [][NextAny]_vars

(***************************************************************************)
(* SpecWalk: a policy under which one impostor keeps walking to a          *)
(* neighbour it may enter, the other impostor kills one crewmate as soon   *)
(* as its cooldown allows, and everybody else stands still.                *)
(***************************************************************************)
Walker == "red"
Killer == "black"
Victim == "cyan"

WalkMenu ==
  IF players[idx] = Walker
  THEN {MoveAction(Edges[current_location[Walker]][i].dest) :
          i \in {j \in 1..Len(Edges[current_location[Walker]]) :
                   LET e == Edges[current_location[Walker]][j]
                   IN  ~(e.vent /\ vent_cooldown[Walker] > 0)}}
  ELSE IF players[idx] = Killer /\ kill_cooldown[Killer] = 0 /\ state[Victim] # "DEAD"
  THEN {KillAction(Victim, FALSE, NONE, NONE)}
  ELSE {NoneAction}

WalkStepBegin == StepBeginUpTo(MaxWalkTick)
WalkStateDecision == PolicyIteration("state", WalkMenu)
WalkMoveDecision == PolicyIteration("move", WalkMenu)
WalkActionDecision == PolicyIteration("action", WalkMenu)

NextWalk == WalkStepBegin \/ WalkStateDecision \/ WalkMoveDecision \/ WalkActionDecision

SpecWalk == InitPolicy /\ [][NextWalk]_vars

(***************************************************************************)
(* SpecVote: a policy that builds the situations a body report is resolved *)
(* in.  In the first tick two players may start to follow the crewmate     *)
(* with the visual task; that crewmate may start and work its task; three  *)
(* players may walk along corridors; one impostor may kill a crewmate in   *)
(* its node; every player may report the unreported bodies.                *)
(***************************************************************************)
Leader == "pink"

CorridorMoves(p) ==
  {MoveAction(Edges[current_location[p]][i].dest) :
     i \in {j \in 1..Len(Edges[current_location[p]]) :
              ~Edges[current_location[p]][j].vent}}

TaskSteps(p) ==
  {StartTaskAction(t) : t \in Range(tasks[p])}
  \cup (IF current_task[p] # NONE THEN {WorkTaskAction} ELSE {})

BodyReports ==
  IF DeadBodiesUnreported(G) = <<>> THEN {}
  ELSE {ReportAction(DeadBodiesUnreported(G), NONE)}

VoteMenu(ph) ==
  LET p == players[idx] IN
  {NoneAction} \cup
  CASE ph = "state" ->
         IF p = Leader THEN TaskSteps(p)
         ELSE IF p \in {Walker, Victim} /\ tick_counter = 1
         THEN {FollowAction(Leader)}
         ELSE {}
    [] ph = "move" ->
         IF p # Leader THEN CorridorMoves(p) ELSE {}
    [] ph = "action" ->
         BodyReports
         \cup (IF p = Killer THEN {KillAction(Victim, FALSE, NONE, NONE)} ELSE {})
         \cup (IF p = Leader THEN TaskSteps(p) ELSE {})

VoteStepBegin == StepBeginUpTo(MaxVoteTick)
VoteStateDecision == PolicyIteration("state", VoteMenu("state"))
VoteMoveDecision == PolicyIteration("move", VoteMenu("move"))
VoteActionDecision == PolicyIteration("action", VoteMenu("action"))

NextVote == VoteStepBegin \/ VoteStateDecision \/ VoteMoveDecision \/ VoteActionDecision

SpecVote == InitPolicy /\ [][NextVote]_vars

(***************************************************************************)
(* SpecChase: a policy under which one impostor walks the corridors in     *)
(* every phase, the other impostor walks and may kill a crewmate in its    *)
(* node, that crewmate walks in the move phase, and the crewmate left may  *)
(* report the unreported bodies.                                           *)
(***************************************************************************)
ChaseMenu(ph) ==
  LET p == players[idx] IN
  {NoneAction} \cup
  CASE p = Walker -> CorridorMoves(p)
    [] p = Killer -> IF ph = "action"
                     THEN {KillAction(Victim, FALSE, NONE, NONE)}
                     ELSE CorridorMoves(p)
    [] p = Victim -> IF ph = "move" THEN CorridorMoves(p) ELSE {}
    [] OTHER -> IF ph = "action" THEN BodyReports ELSE {}

ChaseStepBegin == StepBeginUpTo(MaxChaseTick)
ChaseStateDecision == PolicyIteration("state", ChaseMenu("state"))
ChaseMoveDecision == PolicyIteration("move", ChaseMenu("move"))
ChaseActionDecision == PolicyIteration("action", ChaseMenu("action"))

NextChase ==
  ChaseStepBegin \/ ChaseStateDecision \/ ChaseMoveDecision \/ ChaseActionDecision

SpecChase == InitPolicy /\ [][NextChase]_vars

(***************************************************************************)
(* SpecAccuse: a policy under which every player may walk through any edge *)
(* of its node in the move phase and may, in the action phase, report      *)
(* another player as witnessed, with no bodies.                            *)
(***************************************************************************)
EdgeMoves(p) ==
  {MoveAction(Edges[current_location[p]][i].dest) :
     i \in 1..Len(Edges[current_location[p]])}

Accusations(p) ==
  {ReportAction(NoBodies, w) : w \in PlayerNames \ {p}}

AccuseMenu(ph) ==
  LET p == players[idx] IN
  {NoneAction} \cup
  CASE ph = "move" -> EdgeMoves(p)
    [] ph = "action" -> Accusations(p)
    [] OTHER -> {}

AccuseStepBegin == StepBeginUpTo(MaxAccuseTick)
AccuseStateDecision == PolicyIteration("state", AccuseMenu("state"))
AccuseMoveDecision == PolicyIteration("move", AccuseMenu("move"))
AccuseActionDecision == PolicyIteration("action", AccuseMenu("action"))

NextAccuse ==
  AccuseStepBegin \/ AccuseStateDecision \/ AccuseMoveDecision \/ AccuseActionDecision

SpecAccuse == InitPolicy /\ [][NextAccuse]_vars

(***************************************************************************)
(* SpecStar: the meeting policy with one more follower and one more kind   *)
(* of report.  In the first tick every other player may start to follow    *)
(* the crewmate with the visual task; that crewmate works its task in any  *)
(* phase and, from the second tick on, may itself follow one of them and   *)
(* report the killer as witnessed; the others walk, kill and report bodies *)
(* as in SpecVote.                                                         *)
(***************************************************************************)
StarMenu(ph) ==
  LET p == players[idx] IN
  VoteMenu(ph) \cup
  CASE ph = "state" ->
         IF p = Leader
         THEN IF tick_counter > 1 THEN {FollowAction(Walker)} ELSE {}
         ELSE IF p = Killer /\ tick_counter = 1 THEN {FollowAction(Leader)}
         ELSE {}
    [] ph = "move" ->
         IF p = Leader THEN TaskSteps(p) ELSE {}
    [] ph = "action" ->
         IF p = Leader /\ tick_counter > 1
         THEN {ReportAction(NoBodies, Killer)}
         ELSE {}

StarStepBegin == StepBeginUpTo(MaxStarTick)
StarStateDecision == PolicyIteration("state", StarMenu("state"))
StarMoveDecision == PolicyIteration("move", StarMenu("move"))
StarActionDecision == PolicyIteration("action", StarMenu("action"))

NextStar == StarStepBegin \/ StarStateDecision \/ StarMoveDecision \/ StarActionDecision

SpecStar == InitPolicy /\ [][NextStar]_vars

(***************************************************************************)
(* SpecLate: a policy of walks, one kill and body reports over four ticks. *)
(* Three players walk the corridors in the movement phase (the victim in   *)
(* the first tick only), the killer may kill in the action phase, and the  *)
(* fourth player reports unreported bodies in the action phase.            *)
(***************************************************************************)
LateMenu(ph) ==
  LET p == players[idx] IN
  {NoneAction} \cup
  CASE ph = "move" ->
         IF p \in {Walker, Killer} \/ (p = Victim /\ tick_counter = 1)
         THEN CorridorMoves(p)
         ELSE {}
    [] ph = "action" ->
         IF p = Killer THEN {KillAction(Victim, FALSE, NONE, NONE)}
         ELSE IF p = Leader THEN BodyReports
         ELSE {}
    [] OTHER -> {}

LateStepBegin == StepBeginUpTo(MaxLateTick)
LateStateDecision == PolicyIteration("state", LateMenu("state"))
LateMoveDecision == PolicyIteration("move", LateMenu("move"))
LateActionDecision == PolicyIteration("action", LateMenu("action"))

NextLate == LateStepBegin \/ LateStateDecision \/ LateMoveDecision \/ LateActionDecision

SpecLate == InitPolicy /\ [][NextLate]_vars

(***************************************************************************)
(* SpecVent: a policy in which one impostor asks, in the movement phase of *)
(* every tick, for a move along one of the edges of its node, vent-only    *)
(* edges included whatever its vent cooldown; the others stay where they   *)
(* are and see it arrive.                                                  *)
(***************************************************************************)
VentMenu(ph) ==
  IF ph = "move" /\ players[idx] = Walker
  THEN {MoveAction(Edges[current_location[Walker]][i].dest) :
          i \in 1..Len(Edges[current_location[Walker]])}
  ELSE {NoneAction}

VentStepBegin == StepBeginUpTo(MaxVentTick)
VentStateDecision == PolicyIteration("state", VentMenu("state"))
VentMoveDecision == PolicyIteration("move", VentMenu("move"))
VentActionDecision == PolicyIteration("action", VentMenu("action"))

NextVent == VentStepBegin \/ VentStateDecision \/ VentMoveDecision \/ VentActionDecision

SpecVent == InitPolicy /\ [][NextVent]_vars

(***************************************************************************)
(* SpecKill: a policy in which one impostor asks for the kill of a         *)
(* crewmate in the movement phase and in the action phase of every tick,   *)
(* whatever its kill cooldown; nobody else acts.                           *)
(***************************************************************************)
KillMenu(ph) ==
  IF ph \in {"move", "action"} /\ players[idx] = Killer
  THEN {KillAction(t, FALSE, NONE, NONE) : t \in {q \in PlayerNames : ~imposter[q]}}
  ELSE {NoneAction}

KillStepBegin == StepBeginUpTo(MaxKillTick)
KillStateDecision == PolicyIteration("state", KillMenu("state"))
KillMoveDecision == PolicyIteration("move", KillMenu("move"))
KillActionDecision == PolicyIteration("action", KillMenu("action"))

NextKill == KillStepBegin \/ KillStateDecision \/ KillMoveDecision \/ KillActionDecision

SpecKill == InitPolicy /\ [][NextKill]_vars

(***************************************************************************)
(* The Fuzzer policy (fuzzer.py).  A decision function is the set of its   *)
(* possible outcomes over the random draws: each outcome is the game the   *)
(* call leaves and the action it returns.                                  *)
(***************************************************************************)
Outcome(g, action) == [g |-> g, action |-> action]

\* Fuzzer.competency_of (enable_competency = False assigns NORMAL to all)
CompetencyOf(p) == competency[p]

\* all orders random.shuffle can leave the list in
Shuffles(s) ==
  {q \in [1..Len(s) -> Range(s)] : \A x \in Range(s) : Count(q, x) = Count(s, x)}

\* fuzzer.py lines 55-65: one group with its elected leader
SetGroup(g, group, leader) ==
  LET followers == SelectSeq(group, LAMBDA p : p # leader)
  IN  [g EXCEPT
         !.player_following = [p \in PlayerNames |->
            IF p = leader THEN followers
            ELSE IF InList(followers, p) THEN <<>>
            ELSE g.player_following[p]],
         !.following_player = [p \in PlayerNames |->
            IF p = leader THEN NONE
            ELSE IF InList(followers, p) THEN leader
            ELSE g.following_player[p]],
         !.state = [p \in PlayerNames |->
            IF p = leader THEN "IDLE"
            ELSE IF InList(followers, p) THEN "FOLLOWING"
            ELSE g.state[p]]]

\* the groups from the i-th on, every election of a leader
RECURSIVE GroupsFrom(_, _, _, _)
GroupsFrom(g, shuffled, size, i) ==
  IF (i - 1) * size >= Len(shuffled) THEN {g}
  ELSE LET group == SubSeq(shuffled, (i - 1) * size + 1, Min(i * size, Len(shuffled)))
       IN  UNION {GroupsFrom(SetGroup(g, group, group[k]), shuffled, size, i + 1) :
                    k \in 1..Len(group)}

\* Fuzzer.ensure_groups (the caller has checked groups_initialised)
EnsureGroups(g) ==
  UNION {GroupsFrom(g, shuffled, group_size, 1) : shuffled \in Shuffles(g.players)}

\* the re-election that leaves the new leader's own leader reference in place
RerollKeepsLeaderRef(g, player, include_self) ==
  LET other_followers == g.player_following[player]
      alive_followers ==
        SelectSeq(other_followers, LAMBDA p :
           g.state[p] # "DEAD"
           /\ InList(g.node_players[g.current_location[player]], p))
        \o (IF include_self /\ g.state[player] # "DEAD" THEN <<player>> ELSE <<>>)
  IN  IF alive_followers = <<>> THEN {g}
      ELSE {LET rest == SelectSeq(other_followers \o <<player>>, LAMBDA p :
                           p # new_leader /\ g.state[p] # "DEAD")
            IN  [g EXCEPT
                   !.player_following = [p \in PlayerNames |->
                      IF InList(rest, p) THEN <<>>
                      ELSE IF p = new_leader THEN rest
                      ELSE g.player_following[p]],
                   !.following_player = [p \in PlayerNames |->
                      IF InList(rest, p) THEN new_leader
                      ELSE g.following_player[p]],
                   !.state = [p \in PlayerNames |->
                      IF InList(rest, p) THEN "FOLLOWING"
                      ELSE IF p = new_leader THEN "IDLE"
                      ELSE g.state[p]]]
            : new_leader \in Range(alive_followers)}

\* Fuzzer.reroll_group_leader
RerollGroupLeader(g, player, include_self) ==
  LET other_followers == g.player_following[player]
      current_node == g.current_location[player]
      alive_followers ==
        SelectSeq(other_followers, LAMBDA p :
           g.state[p] # "DEAD" /\ InList(g.node_players[current_node], p))
        \o (IF include_self /\ g.state[player] # "DEAD" THEN <<player>> ELSE <<>>)
  IN  IF other_followers = <<>> THEN {g}
      ELSE IF alive_followers = <<>> THEN {g}
      ELSE {LET rest == SelectSeq(other_followers \o <<player>>, LAMBDA p :
                           p # new_leader /\ g.state[p] # "DEAD")
            IN  [g EXCEPT
                   !.player_following = [p \in PlayerNames |->
                      IF InList(rest, p) THEN <<>>
                      ELSE IF p = new_leader THEN rest
                      ELSE g.player_following[p]],
                   !.following_player = [p \in PlayerNames |->
                      IF InList(rest, p) THEN new_leader
                      ELSE IF p = new_leader THEN NONE
                      ELSE g.following_player[p]],
                   !.state = [p \in PlayerNames |->
                      IF InList(rest, p) THEN "FOLLOWING"
                      ELSE IF p = new_leader THEN "IDLE"
                      ELSE g.state[p]]]
            : new_leader \in Range(alive_followers)}

\* Fuzzer.decide_state after the group initialisation (lines 128-159)
DecideStateOf(g, player) ==
  CASE g.state[player] = "DEAD" -> {Outcome(g, NoneAction)}
    [] g.state[player] = "IDLE" ->
         IF Len(g.tasks[player]) > 0 \/ g.current_task[player] # NONE
         THEN {Outcome(g, SetStateAction("WORKING"))}
         ELSE {Outcome(g, NoneAction)}
    [] g.state[player] = "WORKING" ->
         (IF imposter[player] THEN {Outcome(g, SetStateAction("IDLE"))} ELSE {})
         \cup (IF Len(g.tasks[player]) = 0 /\ g.current_task[player] = NONE
               THEN {Outcome(g, SetStateAction("IDLE"))}
               ELSE {Outcome(g, NoneAction)})
    [] g.state[player] = "FOLLOWING" ->
         IF g.following_player[player] = NONE
         THEN {Outcome(g, SetStateAction("IDLE"))}
         ELSE IF g.state[g.following_player[player]] = "DEAD"
         THEN {Outcome(h, NoneAction) :
                 h \in RerollGroupLeader(g, g.following_player[player], TRUE)}
         ELSE {Outcome(g, NoneAction)}
    [] OTHER -> {Outcome(g, NoneAction)}

\* Fuzzer.decide_state
DecideState(g, player, initialised) ==
  IF ~initialised
  THEN UNION {DecideStateOf(h, player) : h \in EnsureGroups(g)}
  ELSE DecideStateOf(g, player)

\* the vent-only edges a player may not take (lines 215, 351)
VentBarred(g, player, edge) ==
  edge.vent /\ (~imposter[player] \/ g.vent_cooldown[player] > 0)

\* Fuzzer._choose_random_destination: the destinations of positive weight;
\* the weight is counted in units of 1/500
DestinationWeight(g, player, edge) ==
  5 * (100 - g.dislike_visited_node[player][edge.dest])
  + (IF NodeVent(edge.dest) THEN 100 * g.kill_cooldown[player] ELSE 0)

ChooseRandomDestination(g, player) ==
  LET edges == Edges[g.current_location[player]]
  IN  {edges[i].dest : i \in {j \in 1..Len(edges) :
          /\ ~VentBarred(g, player, edges[j])
          /\ DestinationWeight(g, player, edges[j]) > 0}}

\* lines 208-226: the first permitted neighbour of strictly largest weight
BestDestination(g, player) ==
  LET edges == Edges[g.current_location[player]]
      ok == {j \in 1..Len(edges) : ~VentBarred(g, player, edges[j])}
      w(j) == 100 - g.dislike_visited_node[player][edges[j].dest]
  IN  {edges[i].dest : i \in {j \in ok :
          /\ \A k \in ok : w(k) <= w(j)
          /\ \A k \in ok : k < j => w(k) < w(j)}}

\* Fuzzer._decide_idle_movement
DecideIdleMovement(g, player) ==
  LET edges == Edges[g.current_location[player]]
  IN  CASE CompetencyOf(player) = "TROLL" ->
             IF edges = <<>> THEN {Outcome([g EXCEPT !.raised = "IndexError"], NoneAction)}
             ELSE {Outcome(g, MoveAction(edges[i].dest)) : i \in 1..Len(edges)}
        [] CompetencyOf(player) = "FULL" ->
             IF BestDestination(g, player) = {} THEN {Outcome(g, NoneAction)}
             ELSE {Outcome(g, MoveAction(d)) : d \in BestDestination(g, player)}
        [] OTHER ->
             IF ChooseRandomDestination(g, player) = {} THEN {Outcome(g, NoneAction)}
             ELSE {Outcome(g, MoveAction(d)) : d \in ChooseRandomDestination(g, player)}

\* Fuzzer._decide_working_movement
DecideWorkingMovement(g, player) ==
  IF ChooseRandomDestination(g, player) = {} THEN {Outcome(g, NoneAction)}
  ELSE {Outcome(g, MoveAction(d)) : d \in ChooseRandomDestination(g, player)}

\* Fuzzer._decide_following_movement
DecideFollowingMovement(g, player) ==
  LET leader == g.following_player[player]
  IN  (IF imposter[player] THEN {Outcome(g, SetStateAction("IDLE"))} ELSE {})
      \cup
      (IF CompetencyOf(player) = "TROLL" THEN {Outcome(g, SetStateAction("IDLE"))}
       ELSE IF leader = NONE THEN {Outcome(g, SetStateAction("IDLE"))}
       ELSE IF g.current_location[leader] # g.current_location[player]
       THEN {Outcome(g, MoveAction(g.current_location[leader]))}
       ELSE {Outcome(g, NoneAction)})

\* Fuzzer.decide_movement
DecideMovement(g, player) ==
  CASE g.state[player] = "DEAD" -> {Outcome(g, NoneAction)}
    [] g.state[player] = "FOLLOWING" -> DecideFollowingMovement(g, player)
    [] g.state[player] = "IDLE" -> DecideIdleMovement(g, player)
    [] g.state[player] = "WORKING" ->
         IF /\ g.current_task[player] # NONE
            /\ TaskDefs[g.current_task[player]].location # g.current_location[player]
         THEN DecideWorkingMovement(g, player)
         ELSE {Outcome(g, NoneAction)}
    [] OTHER -> {Outcome(g, NoneAction)}

\* Fuzzer._decide_auto_report_dead_body: the reports it may return; the
\* flag says whether it may also return NoneAction
AutoReports(g, player) ==
  IF \/ g.state[player] = "DEAD"
     \/ imposter[player]
     \/ DeadBodiesUnreported(g) = <<>>
     \/ CompetencyOf(player) = "TROLL"
  THEN {}
  ELSE {ReportAction(DeadBodiesUnreported(g), NONE)}

AutoReportMayPass(g, player) ==
  \/ AutoReports(g, player) = {}
  \/ CompetencyOf(player) = "NORMAL"

\* Fuzzer._decide_kill, lines 294-298
CrewmatesInNode(g, player) ==
  SelectSeq(OtherPlayersInCurrentNode(g, player),
            LAMBDA p : ~imposter[p] /\ g.state[p] # "DEAD")

\* lines 322-333: who may be named as witness_reporter
WitnessReporters(other_crewmates) ==
  {NONE : chosen \in {c \in Range(other_crewmates) : CompetencyOf(c) # "FULL"}}
  \cup {chosen \in Range(other_crewmates) : CompetencyOf(chosen) # "TROLL"}

\* Fuzzer._decide_kill: the kills it may return (it may always return
\* NoneAction: the 1-in-4 gate)
DecideKill(g, player) ==
  IF \/ g.state[player] = "DEAD"
     \/ ~imposter[player]
     \/ g.kill_cooldown[player] > 0
  THEN {}
  ELSE UNION {
    LET other_crewmates == SelectSeq(CrewmatesInNode(g, player), LAMBDA p : p # target)
    IN  {KillAction(target, sr.self_report, sr.witness, wr) :
           sr \in {[self_report |-> FALSE, witness |-> NONE]}
                  \cup (IF other_crewmates = <<>>
                        THEN {[self_report |-> TRUE, witness |-> NONE]}
                        ELSE {[self_report |-> TRUE, witness |-> w] :
                                w \in Range(other_crewmates)}),
           wr \in (IF other_crewmates = <<>> THEN {NONE}
                   ELSE WitnessReporters(other_crewmates))}
    : target \in Range(CrewmatesInNode(g, player))}

\* Fuzzer._decide_working_action
DecideWorkingAction(g, player) ==
  IF g.current_task[player] = NONE
  THEN IF g.tasks[player] = <<>> THEN {Outcome(g, NoneAction)}
       ELSE IF CompetencyOf(player) = "FULL"
       THEN \* min(): the first task of least length
            LET q == g.tasks[player]
                len(i) == TASK_TO_TICKS[TaskDefs[q[i]].length]
                best == CHOOSE i \in 1..Len(q) :
                           /\ \A k \in 1..Len(q) : len(i) <= len(k)
                           /\ \A k \in 1..(i - 1) : len(k) > len(i)
            IN  {Outcome(g, StartTaskAction(q[best]))}
       ELSE {Outcome(g, StartTaskAction(t)) : t \in Range(g.tasks[player])}
  ELSE IF TaskDefs[g.current_task[player]].location = g.current_location[player]
  THEN {Outcome(g, WorkTaskAction)}
  ELSE {Outcome(g, NoneAction)}

\* Fuzzer._decide_following_action
DecideFollowingAction(g, player) ==
  LET leader == g.following_player[player]
  IN  IF CompetencyOf(player) = "TROLL" THEN {Outcome(g, SetStateAction("IDLE"))}
      ELSE IF leader = NONE
      THEN {Outcome([g EXCEPT !.raised = "AttributeError"], NoneAction)}
      ELSE IF /\ NodeVent(g.current_location[leader])
              /\ ~(imposter[player] /\ g.vent_cooldown[player] = 0)
      THEN {Outcome(g, ReportAction(NoBodies, leader))}
      ELSE {Outcome(g, NoneAction)}

\* Fuzzer.decide_action
DecideAction(g, player) ==
  IF g.state[player] = "DEAD" THEN {Outcome(g, NoneAction)}
  ELSE
    {Outcome(g, a) : a \in AutoReports(g, player)}
    \cup
    (IF ~AutoReportMayPass(g, player) THEN {}
     ELSE {Outcome(g, a) : a \in DecideKill(g, player)}
          \cup
          (CASE g.state[player] = "WORKING" -> DecideWorkingAction(g, player)
             [] g.state[player] = "FOLLOWING" -> DecideFollowingAction(g, player)
             [] OTHER -> {Outcome(g, NoneAction)}))

(***************************************************************************)
(* Fuzzer.tick: Game.step driven by the Fuzzer's three decision functions  *)
(***************************************************************************)
StateDecision ==
  /\ phase = "state"
  /\ raised = NONE
  /\ \E d \in DecideState(G, players[idx], groups_initialised) :
        LoopIteration("state", d)
  /\ groups_initialised' = TRUE
  /\ UNCHANGED <<imposter, competency, group_size, acts>>

MoveDecision ==
  /\ phase = "move"
  /\ raised = NONE
  /\ \E d \in DecideMovement(G, players[idx]) : LoopIteration("move", d)
  /\ UNCHANGED <<imposter, competency, groups_initialised, group_size, acts>>

ActionDecision ==
  /\ phase = "action"
  /\ raised = NONE
  /\ \E d \in DecideAction(G, players[idx]) : LoopIteration("action", d)
  /\ UNCHANGED <<imposter, competency, groups_initialised, group_size, acts>>

\* Fuzzer.__init__ after Game.__init__: competencies are rolled for the
\* crewmates, impostors are NORMAL
Init ==
  /\ GameInit
  /\ competency \in CompetencyRolls
  /\ groups_initialised = FALSE
  /\ group_size \in GroupSizes
  /\ phase = "idle"
  /\ idx = 1
  /\ step_trace = <<>>
  /\ acts = 0

StepBegin == StepBeginUpTo(MaxTick)

Next == StepBegin \/ StateDecision \/ MoveDecision \/ ActionDecision

Spec == Init /\ [][Next]_vars

(***************************************************************************)
(* run_single (bulk_tester.py): fuzzer.tick is called again and again      *)
(* until a side has won or the tick limit is reached; the loop never       *)
(* pauses, which is the weak fairness of its steps.                        *)
(***************************************************************************)
\* the run has returned "crewmate" or "imposter"
GameWon ==
  tick_counter > 0 /\ (CheckCrewmateWin(G) \/ CheckImposterWin(G))

RunStepBegin == ~GameWon /\ StepBegin

NextRun == RunStepBegin \/ StateDecision \/ MoveDecision \/ ActionDecision

SpecRun == Init /\ [][NextRun]_vars /\ WF_vars(NextRun)

(***************************************************************************)
(*                              PROPERTIES                                 *)
(***************************************************************************)
N == Len(players)

\* the step taken applies action a of player p: apply_action logs it first
Applied(p, a) ==
  /\ phase # "idle"
  /\ Len(action_history') > Len(action_history)
  /\ action_history'[Len(action_history) + 1] =
       [tick |-> tick_counter, player |-> p, action |-> a]

\* the fields of the Player objects
playerFields == <<state, current_location, tasks, current_task, ticks_elapsed,
                  dislike_visited_node, following_player, player_following,
                  vouch_history, kill_cooldown, vent_cooldown, voted_out,
                  dead_body_reported, imposter, competency>>

(***************************************************************************)
(* C1: a tick is: tick counter +1 and cooldown decrement, the state        *)
(* decisions in roster order, the reorder (FOLLOWING players last, stable),*)
(* the move decisions in the new order, the action decisions in the same   *)
(* order; every decision is applied before the next one is taken, so a     *)
(* player that died earlier in the phase proposes nothing.                 *)
(***************************************************************************)
\* the events of a whole tick, given the roster before and after the sort
\* and the FOLLOWING set the sort found
TickEvents(before, following, after) ==
  << <<"tick", NONE>> >>
  \o [i \in 1..Len(before) |-> <<"state", before[i]>>]
  \o << <<"sort", before, following>> >>
  \o [i \in 1..Len(after) |-> <<"move", after[i]>>]
  \o [i \in 1..Len(after) |-> <<"action", after[i]>>]

IsPrefix(s, t) == Len(s) <= Len(t) /\ \A i \in 1..Len(s) : s[i] = t[i]

\* where the step stands, counted in events
EventsDone ==
  CASE phase = "state" -> idx
    [] phase = "move" -> N + 2 + (idx - 1)
    [] phase = "action" -> 2 * N + 2 + (idx - 1)
    [] phase = "idle" -> IF tick_counter = 0 THEN 0 ELSE 3 * N + 2

StepTraceInOrder ==
  raised = NONE =>
    /\ Len(step_trace) = EventsDone
    /\ IF phase = "state" \/ tick_counter = 0
       THEN IsPrefix(step_trace, TickEvents(players, {}, players))
       ELSE LET before == step_trace[N + 2][2]
                following == step_trace[N + 2][3]
            IN  /\ IsPrefix(step_trace, TickEvents(before, following, players))
                /\ players = SelectSeq(before, LAMBDA p : p \notin following)
                             \o SelectSeq(before, LAMBDA p : p \in following)

TickBeginsStep ==
  tick_counter' # tick_counter =>
    /\ phase = "idle"
    /\ tick_counter' = tick_counter + 1
    /\ step_trace' = << <<"tick", NONE>> >>
    /\ \A p \in PlayerNames :
         /\ kill_cooldown'[p] =
              IF state[p] = "DEAD" THEN kill_cooldown[p] ELSE Max(kill_cooldown[p] - 1, 0)
         /\ vent_cooldown'[p] =
              IF state[p] = "DEAD" THEN vent_cooldown[p] ELSE Max(vent_cooldown[p] - 1, 0)
    /\ UNCHANGED <<state, current_location, players, action_history>>

DeadProposeNothing ==
  (phase # "idle" /\ state[players[idx]] = "DEAD") =>
     UNCHANGED <<action_history, playerFields, node_players>>

C1_StepOrder ==
  /\ []StepTraceInOrder
  /\ [][TickBeginsStep /\ DeadProposeNothing]_vars

\* a tick has completed in which the sort changed the roster and a player
\* killed in the action phase was still asked afterwards
C1_Witness ==
  /\ phase = "idle"
  /\ tick_counter = 1
  /\ raised = NONE
  /\ players # step_trace[N + 2][2]
  /\ \E i \in 1..Len(kill_witness_history) :
        LET k == kill_witness_history[i]
        IN  IndexOf(players, k.killer) < IndexOf(players, k.victim)

(***************************************************************************)
(* C2: under the Fuzzer policy no player is a leader and a follower at     *)
(* once: following_player is None or player_following is empty.            *)
(***************************************************************************)
C2_NoLeaderFollower ==
  \A p \in PlayerNames : following_player[p] = NONE \/ player_following[p] = <<>>

\* a group has re-elected its leader after the old one died: the dead
\* leader still lists the new leader, who leads the rest
C2_Witness ==
  \E old \in PlayerNames, new \in PlayerNames :
     /\ state[old] = "DEAD"
     /\ InList(player_following[old], new)
     /\ following_player[new] = NONE
     /\ player_following[new] # <<>>
     /\ \A f \in Range(player_following[new]) : following_player[f] = new

(***************************************************************************)
(* C3: every player of the roster is in the occupant list of exactly one   *)
(* node, the node named by its current_location, and exactly once.         *)
(***************************************************************************)
C3_OneLocation ==
  \A i \in 1..Len(players) :
     \A n \in NodeNames :
        Count(node_players[n], players[i]) =
          (IF n = current_location[players[i]] THEN 1 ELSE 0)

\* one player has left the start node and come back, and another is dead
C3_Witness ==
  \E p \in PlayerNames, r \in PlayerNames :
     /\ current_location[p] = StartNode
     /\ dislike_visited_node[p][StartNode] > 0
     /\ state[r] = "DEAD"

(***************************************************************************)
(* C4: every dislike weight lies in [0, MAX_DISLIKE], is never lowered,    *)
(* and a successful move adds DELTA_DISLIKE to the destination's weight up *)
(* to the cap; kill and vent cooldowns are integers >= 0.                  *)
(***************************************************************************)
DislikeAndCooldownsInRange ==
  \A p \in PlayerNames :
     /\ \A n \in NodeNames : dislike_visited_node[p][n] \in 0..MAX_DISLIKE
     /\ kill_cooldown[p] \in Nat
     /\ vent_cooldown[p] \in Nat

DislikeGrowsByMoves ==
  \A p \in PlayerNames : \A n \in NodeNames :
     /\ dislike_visited_node'[p][n] >= dislike_visited_node[p][n]
     /\ dislike_visited_node'[p][n] =
          IF current_location'[p] # current_location[p] /\ n = current_location'[p]
          THEN Min(dislike_visited_node[p][n] + DELTA_DISLIKE, MAX_DISLIKE)
          ELSE dislike_visited_node[p][n]

C4_DislikeAndCooldowns ==
  /\ []DislikeAndCooldownsInRange
  /\ [][DislikeGrowsByMoves]_vars

\* number of logged moves of p to n
MovesTo(p, n) ==
  Cardinality({i \in 1..Len(action_history) :
                 /\ action_history[i].player = p
                 /\ action_history[i].action = MoveAction(n)})

\* the walker has entered one node more often than the cap allows for, the
\* killer's cooldown is running and the dead victim's cooldowns stand still
C4_Witness ==
  /\ \E n \in NodeNames :
        /\ MovesTo(Walker, n) * DELTA_DISLIKE > MAX_DISLIKE
        /\ dislike_visited_node[Walker][n] = MAX_DISLIKE
  /\ kill_cooldown[Killer] \in 1..(KILL_COOLDOWN_TICKS - 1)
  /\ state[Victim] = "DEAD"

(***************************************************************************)
(* C5: a move along a vent-only edge proposed for a crewmate, or for an    *)
(* impostor whose vent cooldown is > 0, changes neither the mover's        *)
(* location nor any occupant list.                                         *)
(***************************************************************************)
VentMoveBarred(p, dest) ==
  /\ dest \in NodeNames
  /\ \E i \in 1..Len(Edges[current_location[p]]) :
        /\ Edges[current_location[p]][i].dest = dest
        /\ Edges[current_location[p]][i].vent
  /\ (~imposter[p] \/ vent_cooldown[p] > 0)

C5_VentMoveDeclined ==
  [][\A p \in PlayerNames : \A dest \in NodeNames :
       (Applied(p, MoveAction(dest)) /\ VentMoveBarred(p, dest)) =>
          /\ current_location'[p] = current_location[p]
          /\ node_players' = node_players]_vars

\* an impostor that has just left the vent node has asked to go back through
\* the vent and is still where it was
C5_Witness ==
  \E i \in 1..Len(action_history), j \in 1..Len(action_history) :
     LET a == action_history[i]
         b == action_history[j]
     IN  /\ i < j
         /\ a.action = MoveAction("cafe")
         /\ imposter[a.player]
         /\ b.player = a.player
         /\ b.action = MoveAction("vent_a")
         /\ current_location[a.player] = "cafe"
         /\ vent_cooldown[a.player] > 0

(***************************************************************************)
(* C6: applying a NoneAction changes no Player field, no occupant list and *)
(* no history, and appends nothing to the action log.                      *)
(***************************************************************************)
\* the step taken is a loop iteration whose proposal was a NoneAction
NoneApplied == phase # "idle" /\ acts' = acts

C6_NoneActionNoEffect ==
  [][NoneApplied =>
       UNCHANGED <<playerFields, node_players, movement_history,
                   kill_witness_history, action_history, tick_counter>>]_vars

\* NoneActions have been applied after the state had changed: the tick is
\* over, with fewer proposals than slots, a dead player and moved players
C6_Witness ==
  /\ phase = "idle"
  /\ tick_counter = 1
  /\ acts = MaxActs
  /\ \E p \in PlayerNames : state[p] = "DEAD"
  /\ \E p \in PlayerNames : current_location[p] # StartNode

(***************************************************************************)
(* C7: an illegal action is declined as a whole: a move to a non-neighbour *)
(* or unknown node, a kill failing any legality condition, a task start    *)
(* that is neither queued nor made with no active task, a work tick away   *)
(* from the task's node, and any action of a DEAD player leave every       *)
(* Player field, every occupant list, the movement history and the kill    *)
(* witness history as they were.                                           *)
(***************************************************************************)
IllegalMove(p, a) ==
  /\ a.type = "MOVE"
  /\ \/ a.dest \notin NodeNames
     \/ \A i \in 1..Len(Edges[current_location[p]]) :
           Edges[current_location[p]][i].dest # a.dest

IllegalKill(p, a) ==
  /\ a.type = "KILL"
  /\ \/ state[p] = "DEAD"
     \/ ~imposter[p]
     \/ kill_cooldown[p] > 0
     \/ state[a.target] = "DEAD"
     \/ imposter[a.target]
     \/ current_location[p] # current_location[a.target]

IllegalStartTask(p, a) ==
  /\ a.type = "START_TASK"
  /\ ~InList(tasks[p], a.task)
  /\ current_task[p] # NONE

IllegalWorkTick(p, a) ==
  /\ a.type = "WORK_TASK_TICK"
  /\ current_task[p] # NONE
  /\ TaskDefs[current_task[p]].location # current_location[p]

Illegal(p, a) ==
  \/ state[p] = "DEAD"
  \/ IllegalMove(p, a)
  \/ IllegalKill(p, a)
  \/ IllegalStartTask(p, a)
  \/ IllegalWorkTick(p, a)

\* the action the step taken has applied (it is the entry logged first)
AppliedEntry == action_history'[Len(action_history) + 1]

C7_IllegalDeclined ==
  [][(phase # "idle" /\ Len(action_history') > Len(action_history)
        /\ Illegal(AppliedEntry.player, AppliedEntry.action)) =>
       UNCHANGED <<playerFields, node_players, movement_history,
                   kill_witness_history>>]_vars

\* the log ends with a second kill asked by an impostor whose cooldown is
\* running, on a living crewmate in its node, after an action of each kind
\* was declined
C7_Witness ==
  /\ Len(action_history) = 3
  /\ Len(kill_witness_history) = 1
  /\ action_history[1].action.type = "KILL"
  /\ action_history[2].player = kill_witness_history[1].victim
  /\ action_history[3].player = kill_witness_history[1].killer
  /\ action_history[3].action.type = "KILL"
  /\ state[action_history[3].action.target] # "DEAD"
  /\ ~imposter[action_history[3].action.target]
  /\ current_location[action_history[3].action.target]
       = current_location[action_history[3].player]

(***************************************************************************)
(* C8: check_crewmate_win is true iff every impostor of the roster is DEAD *)
(* and check_imposter_win is true iff every crewmate is DEAD; both are     *)
(* true together only when every player is DEAD.                           *)
(***************************************************************************)
C8_WinPredicates ==
  /\ CheckCrewmateWin(G) <=> (\A p \in PlayerNames : imposter[p] => state[p] = "DEAD")
  /\ CheckImposterWin(G) <=> (\A p \in PlayerNames : ~imposter[p] => state[p] = "DEAD")
  /\ (CheckCrewmateWin(G) /\ CheckImposterWin(G)) =>
        \A p \in PlayerNames : state[p] = "DEAD"

\* the crewmates have won after the roster was reordered and one of them died
C8_Witness ==
  /\ CheckCrewmateWin(G)
  /\ ~CheckImposterWin(G)
  /\ players # Roster
  /\ \E p \in PlayerNames : ~imposter[p] /\ state[p] = "DEAD"

(***************************************************************************)
(* C9: a kill by a living impostor with kill cooldown 0 on a living        *)
(* crewmate in the same node succeeds, bystanders or not: the target is    *)
(* DEAD and the attacker's kill cooldown is KILL_COOLDOWN_TICKS.           *)
(***************************************************************************)
C9_LegalKillSucceeds ==
  [][(phase # "idle" /\ Len(action_history') > Len(action_history)
        /\ AppliedEntry.action.type = "KILL"
        /\ ~IllegalKill(AppliedEntry.player, AppliedEntry.action)) =>
       /\ state'[AppliedEntry.action.target] = "DEAD"
       /\ kill_cooldown'[AppliedEntry.player] = KILL_COOLDOWN_TICKS]_vars

\* one kill was made in front of bystanders and ...
C9_Witness ==
  /\ Len(kill_witness_history) = 2
  /\ kill_witness_history[1].witnesses # <<>>
  /\ kill_witness_history[2].witnesses = <<>>

(***************************************************************************)
(* C10: a body report (no witnessed player) by a living reporter resolves  *)
(* on the earliest-logged kill witness record whose victim is among the    *)
(* reported bodies; if that record lists a direct witness, the killer it   *)
(* records is eliminated (DEAD and voted out) and nobody else is, whatever *)
(* later records say.                                                      *)
(***************************************************************************)
\* index of the earliest-logged record about one of the bodies, 0 if none
EarliestRecord(bodies) ==
  LET hits == {i \in 1..Len(kill_witness_history) :
                 kill_witness_history[i].victim \in Range(bodies)}
  IN  IF hits = {} THEN 0 ELSE CHOOSE i \in hits : \A j \in hits : i <= j

C10_EarliestWitnessedRecord ==
  [][(phase # "idle" /\ Len(action_history') > Len(action_history)
        /\ AppliedEntry.action.type = "REPORT"
        /\ AppliedEntry.action.witnessed = NONE
        /\ state[AppliedEntry.player] # "DEAD"
        /\ EarliestRecord(Bodies(AppliedEntry.action.dead_bodies)) # 0) =>
       LET r == kill_witness_history[
                  EarliestRecord(Bodies(AppliedEntry.action.dead_bodies))]
       IN  r.witnesses # <<>> =>
             /\ state'[r.killer] = "DEAD"
             /\ voted_out'[r.killer]
             /\ \A q \in PlayerNames \ {r.killer} :
                   state'[q] = state[q] /\ voted_out'[q] = voted_out[q]]_vars

\* two bodies killed by different killers were reported, the later victim
\* named first; the killer of the earlier record was voted out and the
\* other killer was not
C10_Witness ==
  /\ Len(kill_witness_history) = 2
  /\ kill_witness_history[1].killer # kill_witness_history[2].killer
  /\ kill_witness_history[1].witnesses # <<>>
  /\ kill_witness_history[2].witnesses # <<>>
  /\ Len(action_history) = 4
  /\ action_history[3].action =
       ReportAction(<<kill_witness_history[2].victim, kill_witness_history[1].victim>>,
                    NONE)
  /\ voted_out[kill_witness_history[1].killer]
  /\ state[kill_witness_history[2].killer] # "DEAD"

(***************************************************************************)
(* Body reports resolved by suspicion scoring                              *)
(***************************************************************************)
\* the step taken applies a body report of a living reporter that finds a
\* kill record, and the earliest record has no direct witness
ScoredReport ==
  /\ phase # "idle"
  /\ Len(action_history') > Len(action_history)
  /\ AppliedEntry.action.type = "REPORT"
  /\ AppliedEntry.action.witnessed = NONE
  /\ state[AppliedEntry.player] # "DEAD"
  /\ EarliestRecord(Bodies(AppliedEntry.action.dead_bodies)) # 0
  /\ kill_witness_history[
       EarliestRecord(Bodies(AppliedEntry.action.dead_bodies))].witnesses = <<>>

\* the suspicion scores of that report, by living player
ReportScores ==
  SusScore(G, Range(Bodies(AppliedEntry.action.dead_bodies)),
           kill_witness_history[EarliestRecord(Bodies(AppliedEntry.action.dead_bodies))])

TopScore == MaxSus(ReportScores)

\* the step eliminates u and nobody else
OnlyEliminated(u) ==
  /\ state'[u] = "DEAD"
  /\ voted_out'[u]
  /\ \A q \in PlayerNames \ {u} :
        state'[q] = state[q] /\ voted_out'[q] = voted_out[q]

\* the step eliminates nobody
NobodyEliminated == UNCHANGED <<state, voted_out>>

(***************************************************************************)
(* C11 as stated: in a body report with zero direct witnesses, a living    *)
(* player holding the strictly highest suspicion score is eliminated, and  *)
(* only that player.                                                       *)
(***************************************************************************)
C11_UniqueMaxEliminated ==
  [][ScoredReport =>
       \A u \in DOMAIN ReportScores :
          (\A q \in DOMAIN ReportScores \ {u} : ReportScores[q] < ReportScores[u])
             => OnlyEliminated(u)]_vars

(***************************************************************************)
(* C11 amended: in a body report with zero direct witnesses, a living      *)
(* player whose score is the only one within SUS_WINDOW of the highest     *)
(* score is eliminated, and only that player.                              *)
(***************************************************************************)
C11_SoleCandidateEliminated ==
  [][ScoredReport =>
       \A u \in DOMAIN ReportScores :
          (\A q \in DOMAIN ReportScores \ {u} :
              ReportScores[q] < ReportScores[u] - SUS_WINDOW)
             => OnlyEliminated(u)]_vars

\* a scored report of a living reporter has voted out another player, the
\* only candidate among at least two living players
C11_Witness ==
  /\ Len(action_history) >= 2
  /\ LET o == action_history[Len(action_history)].action IN
       /\ o.type = "REPORT_OUTCOME"
       /\ o.witnessed = NONE
       /\ o.voted_out # NONE
       /\ o.voted_out # o.reporter
       /\ state[o.reporter] # "DEAD"

(***************************************************************************)
(* C12: in a body report with zero direct witnesses, when two or more      *)
(* living players of different leader/follower groups tie at the highest   *)
(* suspicion score, the report changes no player's state or voted_out.     *)
(***************************************************************************)
\* a and b are leader and follower, or followers of one leader
SameGroup(a, b) ==
  \/ following_player[a] = b
  \/ following_player[b] = a
  \/ following_player[a] # NONE /\ following_player[a] = following_player[b]
  \/ InList(player_following[a], b)
  \/ InList(player_following[b], a)
  \/ \E l \in PlayerNames : InList(player_following[l], a) /\ InList(player_following[l], b)

\* two players of different groups hold the highest of the scores sc
UnrelatedTie(sc) ==
  \E a, b \in DOMAIN sc :
     /\ a # b
     /\ sc[a] = MaxSus(sc)
     /\ sc[b] = MaxSus(sc)
     /\ ~SameGroup(a, b)

C12_UnrelatedTieEliminatesNobody ==
  [][(ScoredReport /\ UnrelatedTie(ReportScores)) => NobodyEliminated]_vars

\* the log ends with the outcome of a scored report that eliminated nobody;
\* a leader with a follower and a player outside that group tie at the
\* highest score, which is not 0
C12_Witness ==
  /\ Len(action_history) >= 2
  /\ LET o == action_history[Len(action_history)].action
         r == action_history[Len(action_history) - 1].action
     IN  /\ o.type = "REPORT_OUTCOME"
         /\ o.witnessed = NONE
         /\ o.voted_out = NONE
         /\ r.type = "REPORT"
         /\ EarliestRecord(Bodies(r.dead_bodies)) # 0
         /\ LET sc == SusScore(G, Range(Bodies(r.dead_bodies)),
                               kill_witness_history[EarliestRecord(Bodies(r.dead_bodies))])
            IN  /\ MaxSus(sc) > 0
                /\ \E a, b \in DOMAIN sc :
                      /\ a # b
                      /\ sc[a] = MaxSus(sc)
                      /\ sc[b] = MaxSus(sc)
                      /\ ~SameGroup(a, b)
                      /\ \E f \in DOMAIN sc : following_player[f] = a

(***************************************************************************)
(* C13: in every body report resolved by suspicion scoring, each living    *)
(* player who is in the vouch set of some living player has suspicion      *)
(* score 0 when the candidates are selected, whatever the co-location,     *)
(* movement and follower signals say.                                      *)
(***************************************************************************)
\* s is living and some living player holds a vouch for s
HoldsLivingVouch(s) ==
  /\ state[s] # "DEAD"
  /\ \E p \in PlayerNames : state[p] # "DEAD" /\ s \in vouch_history[p]

C13_VouchImmunity ==
  [][ScoredReport =>
       \A s \in DOMAIN ReportScores : HoldsLivingVouch(s) => ReportScores[s] = 0]_vars

\* the log ends with the outcome of a scored report in which a living
\* player vouched for by a living follower was not voted out although the
\* other signals gave it a positive score
C13_Witness ==
  /\ Len(action_history) >= 2
  /\ LET o == action_history[Len(action_history)].action
         r == action_history[Len(action_history) - 1].action
     IN  /\ o.type = "REPORT_OUTCOME"
         /\ o.witnessed = NONE
         /\ r.type = "REPORT"
         /\ EarliestRecord(Bodies(r.dead_bodies)) # 0
         /\ kill_witness_history[EarliestRecord(Bodies(r.dead_bodies))].witnesses = <<>>
         /\ \E s \in PlayerNames :
               /\ HoldsLivingVouch(s)
               /\ o.voted_out # s
               /\ LET e == kill_witness_history[EarliestRecord(Bodies(r.dead_bodies))]
                      d == Range(Bodies(r.dead_bodies))
                  IN  ColocationScore(G, d, e, s) + MovementScore(G, e, s)
                        + RelationScore(G, d, s) > 0

(***************************************************************************)
(* C14: when the leader of a living follower (state FOLLOWING) becomes     *)
(* DEAD during a tick, then at the end of that tick the follower has a     *)
(* living leader or is IDLE: no tick ends with a player in state FOLLOWING *)
(* whose leader is missing or died during that tick.                       *)
(***************************************************************************)
\* l was killed or voted out in the current tick
DiedThisTick(l) ==
  \/ \E i \in 1..Len(kill_witness_history) :
        /\ kill_witness_history[i].tick = tick_counter
        /\ kill_witness_history[i].victim = l
  \/ \E i \in 1..Len(action_history) :
        /\ action_history[i].tick = tick_counter
        /\ action_history[i].action.type = "REPORT_OUTCOME"
        /\ action_history[i].action.voted_out = l

C14_FollowerReassignedSameTick ==
  (phase = "idle" /\ tick_counter >= 1) =>
     \A p \in PlayerNames :
        state[p] = "FOLLOWING" =>
           ~(/\ following_player[p] # NONE
             /\ state[following_player[p]] = "DEAD"
             /\ DiedThisTick(following_player[p]))

(***************************************************************************)
(* C16: decide_state, decide_move and decide_action change no Player       *)
(* field; every change happens inside apply_action of the returned action. *)
(* A loop iteration whose decision returns a NoneAction (the action log    *)
(* does not grow) therefore leaves state, following_player and             *)
(* player_following of every player as they were.                          *)
(***************************************************************************)
C16_DecisionsArePure ==
  [][(phase # "idle" /\ action_history' = action_history) =>
       UNCHANGED <<state, following_player, player_following>>]_vars

(***************************************************************************)
(* C17: DEAD is absorbing.  No step of a simulation gives a DEAD player    *)
(* another state; in every reachable state no action of the protocol,      *)
(* applied for any player, gives a DEAD player another state; and the      *)
(* three decision functions return a NoneAction for every DEAD player.     *)
(***************************************************************************)
\* the actions the engine is probed with: every type of the protocol
ProbeActions ==
  AnyMoves
  \cup {SetStateAction(st) : st \in {"IDLE", "WORKING", "FOLLOWING"}}
  \cup AnyTasks
  \cup {KillAction(t, sr, NONE, NONE) : t \in PlayerNames, sr \in BOOLEAN}
  \cup {ReportAction(b, w) : b \in {NoBodies, DeadBodiesUnreported(G)},
                             w \in PlayerNames \cup {NONE}}
  \cup {FollowAction(l) : l \in PlayerNames \cup {NONE}}

StaysDead ==
  \A p \in PlayerNames : state[p] = "DEAD" => state'[p] = "DEAD"

EngineKeepsDead ==
  LET dead == {q \in PlayerNames : state[q] = "DEAD"} IN
  dead # {} =>
     \A p \in PlayerNames : \A a \in ProbeActions :
        LET after == ApplyAction(G, p, a).state
        IN  \A q \in dead : after[q] = "DEAD"

DeadDecideNothing ==
  \A p \in PlayerNames :
     state[p] = "DEAD" =>
        \A d \in DecideState(G, p, groups_initialised)
                 \cup DecideMovement(G, p) \cup DecideAction(G, p) :
           d.action = NoneAction

C17_DeadAbsorbing ==
  /\ [][StaysDead]_vars
  /\ [](EngineKeepsDead /\ DeadDecideNothing)

\* a leader killed in tick 1 has been through the three phases of tick 2
\* and a living follower of its group has left it
C17_Witness ==
  /\ tick_counter = 2
  /\ phase = "idle"
  /\ \E i \in 1..Len(kill_witness_history) :
        LET v == kill_witness_history[i].victim IN
        /\ kill_witness_history[i].tick = 1
        /\ state[v] = "DEAD"
        /\ \E q \in Range(player_following[v]) :
              state[q] # "DEAD" /\ following_player[q] # v

(***************************************************************************)
(* C18: every resolution of a report appends exactly one outcome record to *)
(* the action log: an applied report of a living reporter leaves the log   *)
(* two entries longer, the report and then its outcome.                    *)
(***************************************************************************)
ReportResolved ==
  /\ phase # "idle"
  /\ Len(action_history') > Len(action_history)
  /\ AppliedEntry.action.type = "REPORT"
  /\ state[AppliedEntry.player] # "DEAD"

C18_OneOutcomePerReport ==
  [][ReportResolved =>
       /\ Len(action_history') = Len(action_history) + 2
       /\ action_history'[Len(action_history')].action.type = "REPORT_OUTCOME"]_vars

(***************************************************************************)
(* C19: a witnessed report is decided by the tally of living impostors and *)
(* living crewmates in the reporter's node, the reporter counted on its    *)
(* own side: more impostors, the reporter is eliminated; more crewmates,   *)
(* an impostor reporter is eliminated and otherwise the witnessed player;  *)
(* equal counts, nobody.  The eliminated player is voted out and nobody    *)
(* else changes.                                                           *)
(***************************************************************************)
WitnessedReport == ReportResolved /\ AppliedEntry.action.witnessed # NONE

\* living players of one side in the node of r, r included
SideInNode(r, side) ==
  Cardinality({q \in PlayerNames :
                 /\ current_location[q] = current_location[r]
                 /\ state[q] # "DEAD"
                 /\ imposter[q] = side})

C19_WitnessedReportTally ==
  [][WitnessedReport =>
       LET r == AppliedEntry.player
           w == AppliedEntry.action.witnessed
           imps == SideInNode(r, TRUE)
           crew == SideInNode(r, FALSE)
       IN  /\ imps > crew => OnlyEliminated(r)
           /\ (crew > imps /\ imposter[r]) => OnlyEliminated(r)
           /\ (crew > imps /\ ~imposter[r]) => OnlyEliminated(w)
           /\ imps = crew => NobodyEliminated]_vars

\* one action phase has seen a witnessed report that eliminated nobody, one
\* that voted out the witnessed player and one that voted out its reporter
C19_Witness ==
  /\ \E i \in 1..Len(action_history) :
        /\ action_history[i].action.type = "REPORT"
        /\ (i = Len(action_history)
            \/ action_history[i + 1].action.type # "REPORT_OUTCOME")
  /\ \E i \in 1..Len(action_history) :
        /\ action_history[i].action.type = "REPORT_OUTCOME"
        /\ action_history[i].action.voted_out = action_history[i].action.witnessed
        /\ ~imposter[action_history[i].action.reporter]
  /\ \E i \in 1..Len(action_history) :
        /\ action_history[i].action.type = "REPORT_OUTCOME"
        /\ action_history[i].action.voted_out = action_history[i].action.reporter

(***************************************************************************)
(* C20: no action applied through apply_action raises an error; a report   *)
(* of a living reporter with no witnessed player whose body list is None,  *)
(* empty or without a recorded victim is declined and leaves the state     *)
(* unchanged.                                                              *)
(***************************************************************************)
\* the step applies a body report that finds no kill witness record
UnrecordedBodyReport ==
  /\ ReportResolved
  /\ AppliedEntry.action.witnessed = NONE
  /\ EarliestRecord(Bodies(AppliedEntry.action.dead_bodies)) = 0

C20_NoActionRaises ==
  /\ [](raised = NONE)
  /\ [][UnrecordedBodyReport =>
          UNCHANGED <<playerFields, node_players, movement_history,
                      kill_witness_history>>]_vars

(***************************************************************************)
(* C21: in a body report resolved by suspicion scoring, a living player    *)
(* who is vouched for by a living player is never the player the report    *)
(* eliminates.                                                             *)
(***************************************************************************)
C21_VouchedNeverEliminated ==
  [][ScoredReport =>
       \A s \in PlayerNames : HoldsLivingVouch(s) => state'[s] # "DEAD"]_vars

(***************************************************************************)
(* C22: in a body report with zero direct witnesses and two or more        *)
(* candidates inside the SUS_WINDOW tolerance, the first candidate is      *)
(* eliminated exactly when all candidates belong to one leader/follower    *)
(* star; a leader with followers of it is such a set.                      *)
(***************************************************************************)
\* the candidates of the report, in selection order
ReportCandidates == PossibleSuspects(G, ReportScores)

\* the players of S are one leader of S and followers of that leader
OneStar(S) ==
  \E l \in S : \A f \in S \ {l} : following_player[f] = l

C22_StarCandidatesEliminateFirst ==
  [][ScoredReport =>
       LET candidates == ReportCandidates IN
       Len(candidates) >= 2 =>
         IF OneStar(Range(candidates))
         THEN OnlyEliminated(candidates[1])
         ELSE NobodyEliminated]_vars

(***************************************************************************)
(* C23: in suspicion scoring a movement witness record whose tick is more  *)
(* than 2 ticks away from the kill tick, before or after, never changes    *)
(* any suspicion score: the scores of a report are the scores computed     *)
(* from the records within 2 ticks of the kill tick.                       *)
(***************************************************************************)
\* the kill witness record a scored report is resolved with
ReportEntry ==
  kill_witness_history[EarliestRecord(Bodies(AppliedEntry.action.dead_bodies))]

\* the game with the movement records within 2 ticks of the kill tick only
WithNearRecords(g, entry) ==
  [g EXCEPT !.movement_history =
     SelectSeq(@, LAMBDA e : /\ e.tick - entry.tick <= 2
                             /\ entry.tick - e.tick <= 2)]

C23_FarRecordsNeverCount ==
  [][ScoredReport =>
       ReportScores =
         SusScore(WithNearRecords(G, ReportEntry),
                  Range(Bodies(AppliedEntry.action.dead_bodies)),
                  ReportEntry)]_vars

(***************************************************************************)
(* C24: a successful move appends exactly one movement witness record for  *)
(* each other living occupant of the destination and none for a dead one;  *)
(* the record's witness is that occupant, its subject is the mover, its    *)
(* previous and location are the nodes before and after the move and its   *)
(* tick is the current tick.                                               *)
(***************************************************************************)
\* the step taken applies a move that succeeds
MoveDone ==
  /\ phase # "idle"
  /\ Len(action_history') > Len(action_history)
  /\ AppliedEntry.action.type = "MOVE"
  /\ current_location[AppliedEntry.player] # AppliedEntry.action.dest
  /\ current_location'[AppliedEntry.player] = AppliedEntry.action.dest

\* the living occupants the mover finds in the destination
Onlookers ==
  {o \in Range(node_players[AppliedEntry.action.dest]) :
     o # AppliedEntry.player /\ state[o] # "DEAD"}

\* the records the step has appended
NewMovementRecords ==
  {movement_history'[i] :
     i \in (Len(movement_history) + 1)..Len(movement_history')}

C24_MoveRecordFields ==
  [][MoveDone =>
       /\ Len(movement_history') = Len(movement_history) + Cardinality(Onlookers)
       /\ SubSeq(movement_history', 1, Len(movement_history)) = movement_history
       /\ NewMovementRecords =
            {[tick |-> tick_counter,
              witness |-> o,
              subject |-> AppliedEntry.player,
              previous |-> current_location[AppliedEntry.player],
              location |-> AppliedEntry.action.dest] : o \in Onlookers}]_vars

(***************************************************************************)
(* C25: after a successful kill the leader/follower relation between       *)
(* attacker and target is removed in both directions: neither is in the    *)
(* other's follower list and neither has the other as leader reference.    *)
(***************************************************************************)
\* the step taken applies a kill that succeeds
KillDone ==
  /\ phase # "idle"
  /\ Len(action_history') > Len(action_history)
  /\ AppliedEntry.action.type = "KILL"
  /\ Len(kill_witness_history') > Len(kill_witness_history)

C25_KillSeversRelation ==
  [][KillDone =>
       LET attacker == AppliedEntry.player
           target == AppliedEntry.action.target
       IN  /\ ~InList(player_following'[attacker], target)
           /\ ~InList(player_following'[target], attacker)
           /\ following_player'[attacker] # target
           /\ following_player'[target] # attacker]_vars

(***************************************************************************)
(* C26: a successful kill appends exactly one kill witness record with the *)
(* current tick, the attacker, the target and, as witnesses, exactly the   *)
(* players in the attacker's location that are not DEAD and are neither    *)
(* attacker nor target; a declined kill appends no record.                 *)
(***************************************************************************)
\* the players that see attacker kill target
Bystanders(attacker, target) ==
  {o \in Range(node_players[current_location[attacker]]) :
     o \notin {attacker, target} /\ state[o] # "DEAD"}

C26_KillWitnessRecord ==
  [][(phase # "idle" /\ Len(action_history') > Len(action_history)
        /\ AppliedEntry.action.type = "KILL") =>
       LET attacker == AppliedEntry.player
           target == AppliedEntry.action.target
       IN  IF IllegalKill(attacker, AppliedEntry.action)
           THEN kill_witness_history' = kill_witness_history
           ELSE /\ Len(kill_witness_history') = Len(kill_witness_history) + 1
                /\ SubSeq(kill_witness_history', 1, Len(kill_witness_history))
                     = kill_witness_history
                /\ LET r == kill_witness_history'[Len(kill_witness_history')]
                   IN  /\ r.tick = tick_counter
                       /\ r.killer = attacker
                       /\ r.victim = target
                       /\ Range(r.witnesses) = Bystanders(attacker, target)
                       /\ Len(r.witnesses) =
                            Cardinality(Bystanders(attacker, target))]_vars

\* two kills were recorded in one node, the second with a living witness and
\* next to the body of the first, and a third kill was declined
C26_Witness ==
  /\ Len(kill_witness_history) = 2
  /\ kill_witness_history[2].witnesses # <<>>
  /\ current_location[kill_witness_history[1].victim]
       = current_location[kill_witness_history[2].killer]
  /\ Len(action_history) = 3
  /\ action_history[3].action.type = "KILL"

(***************************************************************************)
(* C27: a task start by a living player is accepted iff the task is in the *)
(* player's queue or the player has no active task; an accepted start      *)
(* makes the task the active task, removes it from the queue of a crewmate *)
(* (an impostor's queue is unchanged) and sets the player's elapsed ticks  *)
(* to 0; a declined start changes none of the three.                       *)
(***************************************************************************)
C27_TaskStartResetsProgress ==
  [][(phase # "idle" /\ Len(action_history') > Len(action_history)
        /\ AppliedEntry.action.type = "START_TASK"
        /\ state[AppliedEntry.player] # "DEAD") =>
       LET p == AppliedEntry.player
           task == AppliedEntry.action.task
       IN  IF InList(tasks[p], task) \/ current_task[p] = NONE
           THEN /\ current_task'[p] = task
                /\ tasks'[p] = IF imposter[p] \/ ~InList(tasks[p], task)
                               THEN tasks[p]
                               ELSE ListRemove(tasks[p], task)
                /\ ticks_elapsed'[p] = 0
           ELSE /\ current_task'[p] = current_task[p]
                /\ tasks'[p] = tasks[p]
                /\ ticks_elapsed'[p] = ticks_elapsed[p]]_vars

(***************************************************************************)
(* C28: a work tick counts only while the player is at the active task's   *)
(* location; the active task is cleared exactly on the work tick at which  *)
(* the elapsed ticks reach the threshold of its class (short 1, medium 2,  *)
(* long 3), the elapsed ticks are then 0, and for a crewmate the task's    *)
(* successor, if any, is appended to the queue at that moment and never    *)
(* earlier; an impostor's completion enqueues nothing.                     *)
(***************************************************************************)
DurationThreshold == [SHORT |-> 1, MEDIUM |-> 2, LONG |-> 3]

\* the step taken applies a work tick of living player p
WorkApplied(p) ==
  /\ phase # "idle"
  /\ Len(action_history') > Len(action_history)
  /\ AppliedEntry.action.type = "WORK_TASK_TICK"
  /\ AppliedEntry.player = p
  /\ state[p] # "DEAD"

\* the work tick of p counts and reaches the threshold
Completes(p) ==
  /\ current_task[p] # NONE
  /\ TaskDefs[current_task[p]].location = current_location[p]
  /\ ticks_elapsed[p] + 1 >= DurationThreshold[TaskDefs[current_task[p]].length]

WorkTickEffect ==
  \A p \in PlayerNames :
     WorkApplied(p) =>
       IF current_task[p] = NONE
          \/ TaskDefs[current_task[p]].location # current_location[p]
       THEN /\ ticks_elapsed'[p] = ticks_elapsed[p]
            /\ current_task'[p] = current_task[p]
            /\ tasks'[p] = tasks[p]
       ELSE IF Completes(p)
       THEN /\ ticks_elapsed'[p] = 0
            /\ current_task'[p] = NONE
            /\ tasks'[p] =
                 IF ~imposter[p] /\ TaskDefs[current_task[p]].next_task # <<>>
                 THEN Append(tasks[p], TaskDefs[current_task[p]].next_task[1])
                 ELSE tasks[p]
       ELSE /\ ticks_elapsed'[p] = ticks_elapsed[p] + 1
            /\ current_task'[p] = current_task[p]
            /\ tasks'[p] = tasks[p]

\* an active task is cleared, and a queue grows, at a completion only
OnlyCompletionClears ==
  \A p \in PlayerNames :
     (\/ (current_task[p] # NONE /\ current_task'[p] = NONE)
      \/ Len(tasks'[p]) > Len(tasks[p])) =>
       (WorkApplied(p) /\ Completes(p))

C28_WorkTick == [][WorkTickEffect /\ OnlyCompletionClears]_vars

\* a crewmate has walked to its short task and completed it there with one
\* work tick, and the successor is in the queue
C28_Witness ==
  /\ Len(action_history) = 3
  /\ action_history[3].action.type = "WORK_TASK_TICK"
  /\ ~imposter[action_history[3].player]
  /\ current_task[action_history[3].player] = NONE
  /\ tasks[action_history[3].player] = <<"scan">>
  /\ current_location[action_history[3].player] # StartNode

(***************************************************************************)
(* C29: a vouch is granted only at the completion of a visual task by a    *)
(* crewmate: at that moment the worker is added to the vouch set of every  *)
(* player in the worker's follower list, and no vouch set changes at any   *)
(* other moment.                                                           *)
(***************************************************************************)
\* the step taken completes a visual task of crewmate p
VisualCompletion(p) ==
  /\ WorkApplied(p)
  /\ Completes(p)
  /\ TaskDefs[current_task[p]].visual
  /\ ~imposter[p]

C29_VouchOnlyAtVisualCompletion ==
  [][IF \E p \in PlayerNames : VisualCompletion(p)
     THEN \A p \in PlayerNames :
            VisualCompletion(p) =>
              \A f \in PlayerNames :
                 vouch_history'[f] =
                   IF InList(player_following[p], f)
                   THEN vouch_history[f] \cup {p}
                   ELSE vouch_history[f]
     ELSE vouch_history' = vouch_history]_vars

\* the leader has finished its visual task in front of one follower while
\* another player was not following it: one vouch set holds the leader
C29_Witness ==
  /\ current_task[Leader] = NONE
  /\ tasks[Leader] = <<>>
  /\ \E f \in PlayerNames : vouch_history[f] = {Leader}
  /\ \E q \in PlayerNames \ {Leader} :
        following_player[q] # Leader /\ vouch_history[q] = {}

(***************************************************************************)
(* C30: in the movement phase and in the action phase of every tick, every *)
(* player that is FOLLOWING when the state phase ends is processed after   *)
(* every player that is not, the order inside each of the two classes is   *)
(* the order of the previous roster, and therefore every follower is       *)
(* processed after its own leader.                                         *)
(***************************************************************************)
\* the step taken ends the state phase of a tick
StatePhaseEnds == phase = "state" /\ phase' = "move"

\* the roster the two later phases run through: a reordering of the previous
\* roster with no follower before a non-follower and each class in its
\* previous order
FollowersLast ==
  LET F == {q \in PlayerNames : state'[q] = "FOLLOWING"} IN
  /\ Len(players') = Len(players)
  /\ Range(players') = Range(players)
  /\ \A i \in 1..Len(players') : \A j \in (i + 1)..Len(players') :
        /\ ~(players'[i] \in F /\ players'[j] \notin F)
        /\ (players'[i] \in F <=> players'[j] \in F) =>
             IndexOf(players, players'[i]) < IndexOf(players, players'[j])

\* every follower stands behind its own leader in that roster
LeaderBeforeFollower ==
  \A f \in PlayerNames :
     (state'[f] = "FOLLOWING" /\ following_player'[f] # NONE) =>
       IndexOf(players', following_player'[f]) < IndexOf(players', f)

\* the two later phases process the roster from first to last
ProcessedInRosterOrder ==
  phase \in {"move", "action"} =>
    /\ players' = players
    /\ step_trace' = Append(step_trace, <<phase, players[idx]>>)
    /\ \/ raised' # NONE
       \/ (idx < Len(players) /\ phase' = phase /\ idx' = idx + 1)
       \/ (idx = Len(players) /\ phase' # phase /\ idx' = 1)

C30_FollowersAfterLeaders ==
  [][/\ StatePhaseEnds => (FollowersLast /\ LeaderBeforeFollower)
     /\ ProcessedInRosterOrder]_vars

(***************************************************************************)
(* C31: a successful move from a vent location into a non-vent location    *)
(* sets the mover's vent cooldown to VENT_COOLDOWN_TICKS and no other      *)
(* successful move changes it; hence a player that left a vent location at *)
(* tick t traverses no vent-only edge at any tick before                   *)
(* t + VENT_COOLDOWN_TICKS.                                                *)
(***************************************************************************)
VentExitStartsCooldown ==
  MoveDone =>
    LET p == AppliedEntry.player IN
    vent_cooldown'[p] =
      IF NodeVent(current_location[p]) /\ ~NodeVent(AppliedEntry.action.dest)
      THEN VENT_COOLDOWN_TICKS
      ELSE vent_cooldown[p]

\* the ticks at which p was seen to arrive from a vent location in a
\* non-vent location (the record names the mover in its witness field)
SeenVentExits(p) ==
  {movement_history[i].tick :
     i \in {j \in 1..Len(movement_history) :
              /\ movement_history[j].witness = p
              /\ NodeVent(movement_history[j].previous)
              /\ ~NodeVent(movement_history[j].location)}}

NoVentBeforeCooldownEnds ==
  (MoveDone /\ IsVentEdge(current_location[AppliedEntry.player],
                          AppliedEntry.action.dest)) =>
    \A t \in SeenVentExits(AppliedEntry.player) :
       tick_counter >= t + VENT_COOLDOWN_TICKS

NewOutcomes ==
  SelectSeq(SubSeq(action_history', Len(action_history) + 1, Len(action_history')),
            LAMBDA e : e.action.type = "REPORT_OUTCOME" /\ e.action.voted_out # NONE)

\* the player the step taken has killed, if it has applied a successful kill
KilledNow ==
  IF KillDone THEN {AppliedEntry.action.target} ELSE {}

C32_EliminatedWasAlive ==
  [][phase # "idle" =>
       \A i \in 1..Len(NewOutcomes) :
          LET x == NewOutcomes[i].action.voted_out IN
          /\ state[x] # "DEAD"
          /\ x \notin KilledNow
          /\ \A j \in 1..(i - 1) : NewOutcomes[j].action.voted_out # x]_vars

(***************************************************************************)
(* C33: any two successful kills of one impostor happen at ticks that      *)
(* differ by at least KILL_COOLDOWN_TICKS, and no impostor kills more than *)
(* one player in one tick.                                                 *)
(***************************************************************************)
C33_KillsSpacedByCooldown ==
  \A i \in 1..Len(kill_witness_history) :
     \A j \in (i + 1)..Len(kill_witness_history) :
        kill_witness_history[i].killer = kill_witness_history[j].killer =>
          kill_witness_history[j].tick - kill_witness_history[i].tick
            >= KILL_COOLDOWN_TICKS

\* the impostor has killed twice, the second time at the first tick
\* allowed, after it had asked for that kill in the same tick as the first
\* kill and one tick before the cooldown ended
C33_Witness ==
  /\ Len(kill_witness_history) = 2
  /\ kill_witness_history[1].killer = kill_witness_history[2].killer
  /\ kill_witness_history[2].tick =
       kill_witness_history[1].tick + KILL_COOLDOWN_TICKS
  /\ \A t \in {kill_witness_history[1].tick, kill_witness_history[2].tick - 1} :
        \E i \in 1..Len(action_history) :
           /\ action_history[i].tick = t
           /\ action_history[i].player = kill_witness_history[2].killer
           /\ action_history[i].action =
                KillAction(kill_witness_history[2].victim, FALSE, NONE, NONE)

(***************************************************************************)
(* C34: under the Fuzzer policy a living player in state FOLLOWING whose   *)
(* leader is DEAD does not stay in that situation forever: later it        *)
(* follows a living leader or has left the FOLLOWING state, wherever it    *)
(* stands relative to the dead leader.  A run stops when a side has won,   *)
(* and the runs explored stop after MaxTick ticks; a follower that the     *)
(* end of the run finds behind a dead leader is held against the property  *)
(* only when no later tick could free it (TrapIsClosed).                   *)
(***************************************************************************)
\* f is a living player in state FOLLOWING whose leader is DEAD
FollowsDeadLeader(f) ==
  /\ state[f] = "FOLLOWING"
  /\ following_player[f] # NONE
  /\ state[following_player[f]] = "DEAD"

\* q cannot enter node n from where it stands: no edge, or a vent-only edge
\* and q a crewmate
CannotEnter(q, n) ==
  /\ current_location[q] # n
  /\ \/ ~HasEdge(current_location[q], n)
     \/ (IsVentEdge(current_location[q], n) /\ ~imposter[q])

\* f follows a dead leader none of whose living followers can ever stand in
\* the leader's node: they are crewmates that do not leave the group and
\* cannot enter that node
Trapped(f) ==
  /\ FollowsDeadLeader(f)
  /\ groups_initialised
  /\ InList(player_following[following_player[f]], f)
  /\ \A q \in Range(player_following[following_player[f]]) :
        state[q] # "DEAD" =>
          /\ ~imposter[q]
          /\ CompetencyOf(q) # "TROLL"
          /\ state[q] = "FOLLOWING"
          /\ following_player[q] = following_player[f]
          /\ CannotEnter(q, current_location[following_player[f]])

\* no step of a tick frees a trapped follower: it stays trapped or dies
TrapIsClosed ==
  [][\A f \in PlayerNames :
        Trapped(f) => (Trapped(f)' \/ state'[f] = "DEAD")]_vars

\* the run was cut by the tick bound with f in a situation it can still leave
CutShort(f) ==
  tick_counter = MaxTick /\ phase = "idle" /\ ~Trapped(f)

TrapReached ==
  phase = "idle" /\ ~GameWon /\ \E f \in PlayerNames : Trapped(f)

(***************************************************************************)
(* C35: apply_action appends exactly one entry (current tick, acting       *)
(* player, action) to the action log for every action that is not a        *)
(* NoneAction, before legality is tested, so a declined action leaves its  *)
(* entry too; the only other entries a step appends are the outcome        *)
(* records of the report it resolves; the log only grows at its end and    *)
(* its ticks never decrease.                                               *)
(***************************************************************************)
\* the step taken is a loop iteration whose proposal was not a NoneAction
ProposalMade == phase # "idle" /\ acts' = acts + 1

\* the entries the step taken has appended
NewLogEntries ==
  SubSeq(action_history', Len(action_history) + 1, Len(action_history'))

C35_ActionLogged ==
  [][/\ Len(action_history') >= Len(action_history)
     /\ SubSeq(action_history', 1, Len(action_history)) = action_history
     /\ \A i \in 1..(Len(action_history') - 1) :
           action_history'[i].tick <= action_history'[i + 1].tick
     /\ IF ProposalMade
        THEN /\ Len(NewLogEntries) >= 1
             /\ NewLogEntries[1].tick = tick_counter
             /\ NewLogEntries[1].player = players[idx]
             /\ NewLogEntries[1].action \in VoteMenu(phase) \ {NoneAction}
             /\ \A i \in 2..Len(NewLogEntries) :
                   NewLogEntries[i].action.type = "REPORT_OUTCOME"
        ELSE NewLogEntries = <<>>]_vars

\* the log holds entries of two ticks, the outcome record of a report and
\* more kill entries than kills were carried out
C35_Witness ==
  /\ \E i \in 1..Len(action_history) : action_history[i].tick = 1
  /\ \E i \in 1..Len(action_history) : action_history[i].tick = 2
  /\ \E i \in 1..Len(action_history) :
        action_history[i].action.type = "REPORT_OUTCOME"
  /\ Cardinality({i \in 1..Len(action_history) :
                    action_history[i].action.type = "KILL"})
       > Len(kill_witness_history)

====
